---- MODULE Spec2Model ----
(***************************************************************************)
(* TypoChecker: the chunk processor of the background service worker       *)
(* (ChunkProcessor in chunk-processor.ts).                                 *)
(*                                                                         *)
(*   SplitSpec     ChunkProcessor.splitIntoChunks, one loop iteration per  *)
(*                 step, over every text up to MaxTextLen characters.      *)
(*   DispatchSpec  ChunkProcessor.processChunks / processChunkWithRetry,   *)
(*                 one step per await point of the async code.             *)
(*   CancelSpec    the same with ChunkProcessor.abort called at any time.  *)
(*                                                                         *)
(* Strings are sequences of one-character strings.  JavaScript offsets are *)
(* 0-based; the sequence index of offset i is i + 1.                       *)
(***************************************************************************)
EXTENDS Integers, Sequences, FiniteSets, TLC

(***************************************************************************)
(* Bounds of the model.                                                    *)
(***************************************************************************)
\* AI_MODEL.MAX_CHARS_PER_CHUNK is 20000 and AI_MODEL.OVERLAP_CHARS is 500 in
\* the source; the model keeps their order (0 < overlap < max) at a size TLC
\* can enumerate every text for.
ScaledMaxChars == 5
ScaledOverlap == 3
\* longest text enumerated
MaxTextLen == 7
\* the while loop of splitIntoChunks is cut after this many chunks
MaxChunks == 4

\* longest chunk list handed to processChunks
MaxInputChunks == 4
\* time one analyze call takes to answer when it answers before the timeout (ms)
AnalyzeLatency == 1

Min(a, b) == IF a < b THEN a ELSE b
Max(a, b) == IF a > b THEN a ELSE b
Max3(a, b, c) == Max(a, Max(b, c))

(***************************************************************************)
(* shared/constants.ts                                                     *)
(***************************************************************************)
MAX_CHARS_PER_CHUNK == ScaledMaxChars
OVERLAP_CHARS == ScaledOverlap

BATCH_SIZE == 3
RETRY_ATTEMPTS == 2
RETRY_DELAY == 1000
TIMEOUT == 30000
\* chunk-processor.ts line 137: await this.delay(500)
INTER_BATCH_DELAY == 500

\* the three characters splitIntoChunks breaks after, and one ordinary one
\* the ideographic full stop U+3002 of line 49, written in ASCII
PERIOD == "."
NEWLINE == "\n"
SPACE == " "
Chars == {"a", PERIOD, NEWLINE, SPACE}

VARIABLES
    \* ---- splitIntoChunks ----
    text,        \* the argument
    chunks,      \* const chunks: TextChunk[]
    startIndex,  \* let startIndex
    chunkId,     \* let chunkId
    spc,         \* "init" | "loop" (at the while test, known true) | "done" (returned)
    \* ---- processChunks ----
    inputChunks,      \* the chunks argument
    abortController,  \* this.abortController: "null" | "active" | "aborted"
    ppc,              \* "idle" | "await" (Promise.all) | "delay" (line 137) |
                      \* "returned" | "thrown"
    i,                \* the loop variable of line 103
    results,          \* const results: ChunkResult[]
    progress,         \* the calls of onProgress, <<current, total>> each
    task,             \* per chunk id, its processChunkWithRetry call
    \* ---- history ----
    cancelBeforeStart,  \* abort() was called before processChunks
    inflightAtAbort,    \* <<id, attempt>> of the analyze calls pending at abort()
    \* ---- mergeResults ----
    mergeInput,   \* the results argument
    mergeOutput,  \* the returned TypoError[]
    mpc,          \* "init" | "done" (returned)
    \* ---- AIManager.analyzeContent ----
    providerVariant,       \* which GeminiProvider is the primary: "fetch" | "sdk"
    storedSettings,        \* aiSettings in chrome.storage.sync
    settingsProvider,      \* this.settings.provider: "gemini-api" | "chrome-nano"
    geminiApiKey,          \* this.settings.geminiApiKey: "" | "key"
    fallbackToChromeNano,  \* this.settings.fallbackToChromeNano
    isInitialized,         \* this.isInitialized
    currentProvider,       \* this.currentProvider: a handle, NullHandle for null
    fallbackProvider,      \* this.fallbackProvider: a handle, NullHandle for null
    destroyed,             \* the handles destroy() was called on
    built,                 \* how many provider objects were constructed so far
    lastBuild,             \* what the last run of createProvider did
    used,                  \* the handles the request in flight read
    apc,                   \* "idle" | "primary" | "fallback" (the two awaits) |
                           \* "returned" | "thrown"
    primaryCause,          \* why the primary's request failed, "none" if it has not
    primaryError,          \* the value the primary threw
    errorDetails,          \* what the catch of line 261 read (logged at 263-268)
    fallbackError,         \* the value the fallback threw
    fallbackCalls,         \* calls of fallbackProvider.analyzeContent in this request
    answer,                \* what the caller got: a result or a thrown value
    \* ---- AIManager.analyzeContentStream ----
    stream,                \* the streaming request and what its sink received
    \* ---- GeminiProvider.analyzeWithFileAPI / analyzeWithFileAPIStream ----
    fileApi,               \* the call on the upload path and its uploaded file
    \* ---- ChunkProcessor.parseAnalysisResult on one answer ----
    parse,                 \* the answer and what the attempt made of it
    \* ---- AISessionManager.analyzeTextStreaming ----
    partial,               \* the cumulative chunks and what was yielded
    \* ---- AISessionManager.initialize, concurrent callers ----
    session,               \* this.session and the callers' positions
    \* ---- AIManager.createProvider, concurrent runs ----
    rebuild                \* the runs of createProvider and their positions

splitVars == <<text, chunks, startIndex, chunkId, spc>>
dispatchVars == <<inputChunks, abortController, ppc, i, results,
                  progress, task, cancelBeforeStart, inflightAtAbort>>
mergeVars == <<mergeInput, mergeOutput, mpc>>
configVars == <<settingsProvider, geminiApiKey, fallbackToChromeNano, isInitialized,
                currentProvider, fallbackProvider, destroyed, built, lastBuild>>
requestVars == <<apc, primaryCause, primaryError, errorDetails, fallbackError,
                 fallbackCalls, answer, used>>
managerVars == <<providerVariant, storedSettings, configVars, requestVars>>
vars == <<text, chunks, startIndex, chunkId, spc,
          inputChunks, abortController, ppc, i, results,
          progress, task, cancelBeforeStart, inflightAtAbort,
          mergeInput, mergeOutput, mpc,
          providerVariant, storedSettings, settingsProvider, geminiApiKey, fallbackToChromeNano,
          isInitialized, currentProvider, fallbackProvider, destroyed, built,
          lastBuild, apc, primaryCause, primaryError, errorDetails, fallbackError,
          fallbackCalls, answer, used, stream, fileApi,
          parse, partial, session, rebuild>>
laterVars == <<parse, partial, session, rebuild>>
earlierVars == <<splitVars, dispatchVars, mergeVars, managerVars, stream, fileApi>>
nonParseVars == <<earlierVars, partial, session, rebuild>>
nonPartialVars == <<earlierVars, parse, session, rebuild>>
nonSessionVars == <<earlierVars, parse, partial, rebuild>>
nonRebuildVars == <<earlierVars, parse, partial, session>>
\* what the steps of one component leave alone
nonSplitVars == <<dispatchVars, mergeVars, managerVars, stream, fileApi, laterVars>>
nonDispatchVars == <<splitVars, mergeVars, managerVars, stream, fileApi, laterVars>>
nonMergeVars == <<splitVars, dispatchVars, managerVars, stream, fileApi, laterVars>>
nonManagerVars == <<splitVars, dispatchVars, mergeVars, stream, fileApi, laterVars>>
nonStreamVars == <<splitVars, dispatchVars, mergeVars, fileApi, laterVars>>
nonFileApiVars == <<splitVars, dispatchVars, mergeVars, managerVars, stream, laterVars>>

(***************************************************************************)
(* String helpers, as JavaScript defines them.                             *)
(***************************************************************************)
\* String.prototype.lastIndexOf(c, fromIndex): the greatest offset <= fromIndex
\* holding c, or -1.
LastIndexOf(t, c, fromIndex) ==
    LET hits == {k \in 0..Min(fromIndex, Len(t) - 1) : t[k + 1] = c}
    IN  IF hits = {} THEN -1 ELSE CHOOSE k \in hits : \A j \in hits : j <= k

\* String.prototype.substring(a, b) for 0 <= a <= b <= length
Substring(t, a, b) == SubSeq(t, a + 1, b)

(***************************************************************************)
(* splitIntoChunks                                                         *)
(***************************************************************************)
\* line 30: the text is short enough to stay in one piece
IsShortStrict(t) == Len(t) < MAX_CHARS_PER_CHUNK
IsShort(t) == Len(t) <= MAX_CHARS_PER_CHUNK

\* lines 32-37: the only chunk of a short text (no overlap property)
SingleChunk(t) ==
    [id |-> 0, text |-> t, startIndex |-> 0, endIndex |-> Len(t), overlap |-> {}]

\* lines 45-63: where the chunk starting at s ends
EndIndexOf(t, s) ==
    LET endIndex == Min(s + MAX_CHARS_PER_CHUNK, Len(t))
        lastPeriod == LastIndexOf(t, PERIOD, endIndex)
        lastNewline == LastIndexOf(t, NEWLINE, endIndex)
        lastSpace == LastIndexOf(t, SPACE, endIndex)
        breakPoint == Max3(IF lastPeriod > s THEN lastPeriod + 1 ELSE -1,
                           IF lastNewline > s THEN lastNewline + 1 ELSE -1,
                           IF lastSpace > s THEN lastSpace + 1 ELSE -1)
    IN  IF endIndex < Len(t) /\ breakPoint > s THEN breakPoint ELSE endIndex

\* lines 66-70: the overlap carried by a chunk; {} is undefined
OverlapOf(t, id, s) ==
    IF id > 0 /\ s > 0
    THEN {Substring(t, Max(0, s - OVERLAP_CHARS), s)}
    ELSE {}

\* lines 81-82: where the next chunk starts
NextStart(endIndex) ==
    IF endIndex - OVERLAP_CHARS < 0 THEN endIndex ELSE endIndex - OVERLAP_CHARS

\* no value thrown or returned yet
NoError == [isError |-> FALSE, name |-> "", hasCode |-> FALSE, code |-> <<>>,
            hasStatus |-> FALSE, status |-> "", hasUserMessage |-> FALSE,
            message |-> <<>>]
NoAnswer == [kind |-> "none"]
NoCause == [kind |-> "none", status |-> ""]
NoDetails == [shouldFallback |-> FALSE, fallbackAvailable |-> FALSE,
              fallbackEnabled |-> FALSE]

MaxHandles == 6

\* a provider object: its class and the order of its construction
Handle(kind, id) == [kind |-> kind, id |-> id]
NullHandle == Handle("null", 0)
NoBuild == [ran |-> FALSE, byInitialize |-> FALSE, threw |-> FALSE,
            constructFailed |-> FALSE,
            before |-> {}, wantsFallback |-> FALSE, fallbackInitOk |-> FALSE,
            primaryInitOk |-> FALSE, fallbackAtFailure |-> NullHandle,
            fresh |-> {}]
NoneUsed == [called |-> NullHandle, fallbackAtStart |-> NullHandle,
             reported |-> NullHandle, fallbackCalled |-> NullHandle,
             rebuilt |-> FALSE]

\* the AIManager as its constructor leaves it (lines 210-217), with
\* DEFAULT_AI_SETTINGS
ManagerConstructed ==
    /\ settingsProvider = "chrome-nano"
    /\ geminiApiKey = ""
    /\ fallbackToChromeNano = TRUE
    /\ isInitialized = FALSE
    /\ currentProvider = NullHandle
    /\ fallbackProvider = NullHandle
    /\ destroyed = {}
    /\ built = 0
    /\ lastBuild = NoBuild
    /\ apc = "idle"
    /\ primaryCause = NoCause
    /\ primaryError = NoError
    /\ errorDetails = NoDetails
    /\ fallbackError = NoError
    /\ fallbackCalls = 0
    /\ answer = NoAnswer
    /\ used = NoneUsed

NoRequest == [prompt |-> "", content |-> "", history |-> <<>>]
\* no streaming request yet
NoStream == [pc |-> "idle", sinkThrows |-> FALSE, request |-> NoRequest,
             fallbackArgs |-> NoRequest, events |-> <<>>, delivered |-> 0,
             primaryDelivered |-> 0, cause |-> NoCause, details |-> NoDetails,
             fallbackCalls |-> 0, aborted |-> FALSE, abortAt |-> 0,
             abortSeen |-> FALSE, resolved |-> FALSE, result |-> <<>>,
             fullText |-> <<>>, startAt |-> 0, providerError |-> NoError,
             initialName |-> <<>>, completedBy |-> "none", thrown |-> NoError]
StreamParked == stream = NoStream
\* no call on the upload path yet
NoFileApi == [pc |-> "idle", mode |-> "single", uploaded |-> FALSE,
              hasName |-> FALSE, hasUri |-> FALSE, elapsed |-> 0, polls |-> 0,
              pollAt |-> 0, sawActive |-> FALSE, generated |-> FALSE,
              deletes |-> 0, exit |-> "none", sawFailed |-> FALSE,
              waitCode |-> "", request |-> [prompt |-> "", content |-> ""],
              inlineCalls |-> 0, inlineArgs |-> [prompt |-> "", content |-> ""],
              result |-> "none", code |-> ""]
FileApiParked == fileApi = NoFileApi

\* no answer parsed yet
NoParse == [pc |-> "init", response |-> <<>>, raised |-> FALSE, result |-> <<>>]
ParseParked == parse = NoParse
\* no analyzeTextStreaming call yet
NoPartial == [pc |-> "idle", previousText |-> <<>>, yielded |-> <<>>, code |-> ""]
PartialParked == partial = NoPartial
\* an AISessionManager nobody uses
NoSession == [session |-> 0, isInitializing |-> FALSE, created |-> 0, callers |-> <<>>]
SessionParked == session = NoSession
\* no concurrent createProvider runs
NoRebuild == [settings |-> [provider |-> "chrome-nano", geminiApiKey |-> "",
                           fallbackToChromeNano |-> TRUE],
              stored |-> [provider |-> "chrome-nano", geminiApiKey |-> "",
                          fallbackToChromeNano |-> TRUE],
              isInitialized |-> FALSE, currentProvider |-> 0, fallbackProvider |-> 0,
              kinds |-> <<>>, destroyed |-> {}, live |-> {}, initialized |-> {},
              creating |-> {}, runs |-> <<>>]
RebuildParked == rebuild = NoRebuild

\* an AIManager that is never asked anything
ManagerParked ==
    /\ providerVariant = "fetch"
    /\ storedSettings = [provider |-> "chrome-nano", geminiApiKey |-> "",
                         fallbackToChromeNano |-> TRUE]
    /\ ManagerConstructed
    /\ apc = "idle"
    /\ primaryCause = NoCause
    /\ primaryError = NoError
    /\ errorDetails = NoDetails
    /\ fallbackError = NoError
    /\ fallbackCalls = 0
    /\ answer = NoAnswer

\* mergeResults before any call, with nothing to merge
MergeParked ==
    /\ mergeInput = <<>>
    /\ mergeOutput = <<>>
    /\ mpc = "init"

\* processChunks before any call, with nothing to process
DispatchParked ==
    /\ inputChunks = <<>>
    /\ abortController = "null"
    /\ ppc = "idle"
    /\ i = 0
    /\ results = <<>>
    /\ progress = <<>>
    /\ task = <<>>
    /\ cancelBeforeStart = FALSE
    /\ inflightAtAbort = {}

SplitInit ==
    /\ ParseParked
    /\ PartialParked
    /\ SessionParked
    /\ RebuildParked
    /\ DispatchParked
    /\ MergeParked
    /\ ManagerParked
    /\ StreamParked
    /\ FileApiParked
    /\ text \in UNION {[1..k -> Chars] : k \in 0..MaxTextLen}
    /\ chunks = <<>>
    /\ startIndex = 0
    /\ chunkId = 0
    /\ spc = "init"

\* lines 30-39
SplitShort ==
    /\ spc = "init"
    /\ IsShort(text)
    /\ chunks' = Append(chunks, SingleChunk(text))
    /\ spc' = "done"
    /\ UNCHANGED <<text, startIndex, chunkId>>
    /\ UNCHANGED nonSplitVars

\* lines 41-44: the first test of the while loop, 0 < text.length, is true
SplitEnter ==
    /\ spc = "init"
    /\ ~IsShort(text)
    /\ startIndex' = 0
    /\ chunkId' = 0
    /\ spc' = IF 0 < Len(text) THEN "loop" ELSE "done"
    /\ UNCHANGED <<text, chunks>>
    /\ UNCHANGED nonSplitVars

\* lines 45-85: one iteration of the loop and the test that follows it
SplitIter ==
    /\ spc = "loop"
    /\ Len(chunks) < MaxChunks
    /\ LET endIndex == EndIndexOf(text, startIndex)
       IN  /\ chunks' = Append(chunks,
                  [id |-> chunkId,
                   text |-> Substring(text, startIndex, endIndex),
                   startIndex |-> startIndex,
                   endIndex |-> endIndex,
                   overlap |-> OverlapOf(text, chunkId, startIndex)])
           /\ startIndex' = NextStart(endIndex)
           /\ chunkId' = chunkId + 1
           /\ spc' = IF NextStart(endIndex) < Len(text) THEN "loop" ELSE "done"
    /\ UNCHANGED text
    /\ UNCHANGED nonSplitVars

SplitNext == SplitShort \/ SplitEnter \/ SplitIter

SplitSpec == SplitInit /\ [][SplitNext]_vars

(***************************************************************************)
(* Claims about splitIntoChunks (checked under SplitSpec).                 *)
(***************************************************************************)
IsLong == Len(text) > MAX_CHARS_PER_CHUNK
HasNoBoundary == \A k \in 1..Len(text) : text[k] = "a"

\* C1: for a text longer than MAX_CHARS_PER_CHUNK split terminates, and the chunk
\* list ends with the first chunk whose endIndex is the length of the text: once
\* such a chunk is produced it is the last one and split has returned.  On a
\* text without boundary characters the second chunk starts OVERLAP_CHARS before
\* the end of the first.
C1_SplitStopsAtEndOfText ==
    IsLong =>
        /\ \A k \in 1..Len(chunks) :
              chunks[k].endIndex = Len(text) => (k = Len(chunks) /\ spc = "done")
        /\ (HasNoBoundary /\ Len(chunks) >= 2) =>
              chunks[2].startIndex = chunks[1].endIndex - OVERLAP_CHARS

\* C2: for a text longer than MAX_CHARS_PER_CHUNK the chunks are in source order
\* (each starts after the one before it), the first starts at 0, the last one
\* returned ends at the length of the text, each chunk's text is the text
\* between its offsets, no gap lies between consecutive chunks, and the ids are
\* 0, 1, 2, ...
C2_ChunksCoverTextInOrder ==
    IsLong =>
        /\ \A k \in 1..Len(chunks) :
              /\ chunks[k].id = k - 1
              /\ chunks[k].text = Substring(text, chunks[k].startIndex, chunks[k].endIndex)
        /\ Len(chunks) >= 1 => chunks[1].startIndex = 0
        /\ \A k \in 1..(Len(chunks) - 1) :
              /\ chunks[k + 1].startIndex > chunks[k].startIndex
              /\ chunks[k + 1].startIndex <= chunks[k].endIndex
        /\ spc = "done" => chunks[Len(chunks)].endIndex = Len(text)

\* C3: chunk starts never regress: the next chunk starts strictly after the
\* start of the previous one, OVERLAP_CHARS before its end, and at its end when
\* OVERLAP_CHARS is at least the length of the chunk just produced.
C3_NextStartNeverRegresses ==
    \A k \in 1..(Len(chunks) - 1) :
        LET prev == chunks[k]
            next == chunks[k + 1]
        IN  /\ next.startIndex > prev.startIndex
            /\ next.startIndex =
                  IF OVERLAP_CHARS >= Len(prev.text)
                  THEN prev.endIndex
                  ELSE prev.endIndex - OVERLAP_CHARS

\* C4: a text of at most MAX_CHARS_PER_CHUNK characters (the empty text and a
\* text of exactly that length included) never enters the loop and comes back
\* as exactly one chunk: id 0, offsets 0 and the length, the whole text, no
\* overlap.
C4_ShortTextIsOneChunk ==
    Len(text) <= MAX_CHARS_PER_CHUNK =>
        /\ spc # "loop"
        /\ spc = "init" => chunks = <<>>
        /\ spc = "done" =>
              chunks = <<[id |-> 0, text |-> text, startIndex |-> 0,
                          endIndex |-> Len(text), overlap |-> {}]>>

C4_Witness ==
    /\ Len(text) = MAX_CHARS_PER_CHUNK
    /\ spc = "done"
    /\ Len(chunks) = 1

\* C5: no chunk is longer than MAX_CHARS_PER_CHUNK, wherever the cut was placed.
C5_ChunksAreSizeBounded ==
    \A k \in 1..Len(chunks) : Len(chunks[k].text) <= MAX_CHARS_PER_CHUNK

(***************************************************************************)
(* processChunks, processChunkWithRetry, parseAnalysisResult, abort        *)
(***************************************************************************)
\* The chunk with the given id of a chunk list: ids are 0, 1, 2, ... in list
\* order, the offsets those of consecutive windows.
InputChunk(id) ==
    [id |-> id,
     startIndex |-> id * (MAX_CHARS_PER_CHUNK - OVERLAP_CHARS),
     endIndex |-> id * (MAX_CHARS_PER_CHUNK - OVERLAP_CHARS) + MAX_CHARS_PER_CHUNK]

InputIds == {inputChunks[k].id : k \in 1..Len(inputChunks)}

\* What analyzeFunc answers for a chunk when it answers.  A missing property of
\* an error object is "" (the code tests and defaults them with && and ||,
\* which treat undefined and "" alike).
RawError(type, severity, original, suggestion) ==
    [type |-> type, severity |-> severity, original |-> original,
     suggestion |-> suggestion, explanation |-> ""]

AnalyzeResponse(chunk) ==
    CASE chunk.id % 4 = 0 ->
           [kind |-> "json", top |-> "object", hasErrors |-> TRUE, isArray |-> TRUE,
            matches |-> <<>>,
            errors |-> <<RawError("typo", "error", "teh", "the"),
                         RawError("style", "info", "x", "y")>>]
      [] chunk.id % 4 = 1 ->
           [kind |-> "json", top |-> "object", hasErrors |-> TRUE, isArray |-> TRUE,
            matches |-> <<>>,
            errors |-> <<RawError("grammar", "", "", "is"),
                         RawError("typo", "error", "teh", "the"),
                         RawError("japanese", "info", "z", "")>>]
      [] chunk.id % 4 = 2 ->
           [kind |-> "text", top |-> "none", hasErrors |-> FALSE, isArray |-> FALSE,
            errors |-> <<>>,
            matches |-> <<"recieve">>]
      [] OTHER ->
           [kind |-> "json", top |-> "object", hasErrors |-> TRUE, isArray |-> TRUE,
            matches |-> <<>>,
            errors |-> <<RawError("japanese", "warning", "w", "v")>>]

OrElse(value, default) == IF value = "" THEN default ELSE value

\* lines 241-266: one record per regular-expression match of the answer
FallbackParse(result, chunk) ==
    LET Rec(m) == [type |-> "typo", severity |-> "warning", original |-> m,
                   suggestion |-> "needs fixing", explanation |-> "auto-detected",
                   chunkId |-> chunk.id, position |-> {}]
    IN  [k \in 1..Len(result.matches) |-> Rec(result.matches[k])]

\* an element of parsed.errors that is null
NullElement == [isNull |-> TRUE]
IsNull(e) == "isNull" \in DOMAIN e

\* lines 193-230, the try block: JSON.parse throws on text that is not JSON,
\* reading .errors of null throws, and so does reading .type of a null element
TryBlock(result, chunk) ==
    LET Valid(e) == /\ e.type # ""
                    /\ e.suggestion # ""
                    /\ e.type \in {"typo", "grammar", "japanese"}
        Rec(e) == [type |-> e.type,
                   severity |-> OrElse(e.severity, "warning"),
                   original |-> OrElse(e.original, ""),
                   suggestion |-> e.suggestion,
                   explanation |-> OrElse(e.explanation, ""),
                   chunkId |-> chunk.id,
                   position |-> {[start |-> chunk.startIndex, end |-> chunk.endIndex]}]
        Threw == [threw |-> TRUE, errors |-> <<>>]
        Returned(errors) == [threw |-> FALSE, errors |-> errors]
    IN  IF result.kind # "json" THEN Threw
        ELSE IF result.top = "null" THEN Threw
        ELSE IF result.top # "object" THEN Returned(<<>>)
        ELSE IF ~result.hasErrors \/ ~result.isArray THEN Returned(<<>>)
        ELSE IF \E k \in 1..Len(result.errors) : IsNull(result.errors[k]) THEN Threw
        ELSE LET kept == SelectSeq(result.errors, Valid)
             IN  Returned([k \in 1..Len(kept) |-> Rec(kept[k])])

\* lines 231-236, the catch block
ParseCatchRethrows(result, chunk) == [raised |-> TRUE, errors |-> <<>>]
ParseCatch(result, chunk) == [raised |-> FALSE, errors |-> FallbackParse(result, chunk)]

\* lines 192-236: whether the call raised, and the records it returned
ParseOutcome(result, chunk) ==
    LET tried == TryBlock(result, chunk)
    IN  IF tried.threw THEN ParseCatch(result, chunk)
        ELSE [raised |-> FALSE, errors |-> tried.errors]

\* lines 192-236
ParseAnalysisResult(result, chunk) == ParseOutcome(result, chunk).errors

\* line 108: chunks.slice(i, i + BATCH_SIZE)
BatchShort(from) == SubSeq(inputChunks, from + 1, Min(from + BATCH_SIZE - 1, Len(inputChunks)))
Batch(from) == SubSeq(inputChunks, from + 1, Min(from + BATCH_SIZE, Len(inputChunks)))

BatchIds(from) == {Batch(from)[k].id : k \in 1..Len(Batch(from))}

\* line 154: another attempt follows attempt number `attempt`
MayRetryOneLess(attempt) == attempt < RETRY_ATTEMPTS - 1
MayRetry(attempt) == attempt < RETRY_ATTEMPTS

\* line 175: the wait before the attempt that follows attempt number `attempt`
RetryDelayOf(attempt) == RETRY_DELAY * (attempt + 1)

\* lines 165-169
SuccessResult(chunk, result, elapsed) ==
    [chunkId |-> chunk.id,
     errors |-> ParseAnalysisResult(result, chunk),
     processingTime |-> elapsed]

\* lines 182-186
ExhaustedResultZeroTime(chunk, elapsed) ==
    [chunkId |-> chunk.id, errors |-> <<>>, processingTime |-> 0]
ExhaustedResult(chunk, elapsed) ==
    [chunkId |-> chunk.id, errors |-> <<>>, processingTime |-> elapsed]

\* lines 151-158: processChunkWithRetry up to its first await: attempt 0 calls
\* analyzeFunc.  elapsed is performance.now() - startTime, calls and fails count
\* the calls of analyzeFunc for the chunk and those of them that failed, hung
\* those the timer of withTimeout gave up on: their promises are still pending.
StartedTask ==
    [st |-> "calling", attempt |-> 0, calls |-> 1, fails |-> 0, hung |-> 0,
     elapsed |-> 0, value |-> {}]
IdleTask ==
    [st |-> "none", attempt |-> 0, calls |-> 0, fails |-> 0, hung |-> 0,
     elapsed |-> 0, value |-> {}]

\* lines 111-113: batch.map(chunk => this.processChunkWithRetry(chunk, analyzeFunc))
StartBatchEager(from) ==
    [id \in InputIds |-> IF id >= from THEN StartedTask ELSE task[id]]
StartBatch(from) ==
    [id \in InputIds |-> IF id \in BatchIds(from) THEN StartedTask ELSE task[id]]

\* line 121: the first argument of onProgress after the batch starting at `from`
ProgressCountNoClamp(from, batchLength) == from + BATCH_SIZE
ProgressCount(from, batchLength) == Min(from + batchLength, Len(inputChunks))

\* Promise.all(batchPromises) has resolved
BatchSettled == \A id \in BatchIds(i) : task[id].st = "done"

\* splitIntoChunks before any call
SplitParked ==
    /\ text = <<>>
    /\ chunks = <<>>
    /\ startIndex = 0
    /\ chunkId = 0
    /\ spc = "init"

DispatchInit ==
    /\ ParseParked
    /\ PartialParked
    /\ SessionParked
    /\ RebuildParked
    /\ SplitParked
    /\ MergeParked
    /\ ManagerParked
    /\ StreamParked
    /\ FileApiParked
    /\ \E n \in 0..MaxInputChunks :
          /\ inputChunks = [k \in 1..n |-> InputChunk(k - 1)]
          /\ task = [id \in 0..(n - 1) |-> IdleTask]
    /\ abortController = "null"
    /\ ppc = "idle"
    /\ i = 0
    /\ results = <<>>
    /\ progress = <<>>
    /\ cancelBeforeStart = FALSE
    /\ inflightAtAbort = {}

\* lines 98-116: the call of processChunks, up to its first await
ProcessChunksCall ==
    /\ ppc = "idle"
    /\ abortController' = "active"
    /\ results' = <<>>
    /\ i' = 0
    /\ IF 0 < Len(inputChunks)
       THEN /\ task' = StartBatch(0)
            /\ ppc' = "await"
       ELSE /\ task' = task
            /\ ppc' = "returned"
    /\ UNCHANGED <<inputChunks, progress, cancelBeforeStart, inflightAtAbort>>
    /\ UNCHANGED nonDispatchVars

\* lines 157-169: analyzeFunc answers in time; the answer is parsed and returned
AttemptSucceeds(id) ==
    /\ task[id].st = "calling"
    /\ LET elapsed == task[id].elapsed + AnalyzeLatency
       IN  task' = [task EXCEPT ![id] =
                [@ EXCEPT !.st = "done", !.elapsed = elapsed,
                          !.value = {SuccessResult(InputChunk(id),
                                                   AnalyzeResponse(InputChunk(id)),
                                                   elapsed)}]]
    /\ UNCHANGED <<inputChunks, abortController, ppc, i, results,
                   progress, cancelBeforeStart, inflightAtAbort>>
    /\ UNCHANGED nonDispatchVars

\* lines 170-186: the catch block after an attempt that took `took` ms
AfterFailure(id, took) ==
    LET elapsed == task[id].elapsed + took
    IN  IF MayRetry(task[id].attempt)
        THEN [task EXCEPT ![id] =
                [@ EXCEPT !.st = "backoff", !.elapsed = elapsed, !.fails = @ + 1]]
        ELSE [task EXCEPT ![id] =
                [@ EXCEPT !.st = "done", !.elapsed = elapsed, !.fails = @ + 1,
                          !.value = {ExhaustedResult(InputChunk(id), elapsed)}]]

\* analyzeFunc rejects
AttemptRejects(id) ==
    /\ task[id].st = "calling"
    /\ task' = AfterFailure(id, AnalyzeLatency)
    /\ UNCHANGED <<inputChunks, abortController, ppc, i, results,
                   progress, cancelBeforeStart, inflightAtAbort>>
    /\ UNCHANGED nonDispatchVars

\* lines 271-278: the timer of withTimeout rejects first; nothing cancels the
\* promise of analyzeFunc, which stays pending
AttemptTimesOut(id) ==
    /\ task[id].st = "calling"
    /\ task' = [AfterFailure(id, TIMEOUT) EXCEPT ![id].hung = @ + 1]
    /\ UNCHANGED <<inputChunks, abortController, ppc, i, results,
                   progress, cancelBeforeStart, inflightAtAbort>>
    /\ UNCHANGED nonDispatchVars

\* lines 175, 154-158: the retry delay is over, the next attempt calls analyzeFunc
RetryDelayDone(id) ==
    /\ task[id].st = "backoff"
    /\ task' = [task EXCEPT ![id] =
            [@ EXCEPT !.st = "calling",
                      !.elapsed = @ + RetryDelayOf(task[id].attempt),
                      !.attempt = @ + 1,
                      !.calls = @ + 1]]
    /\ UNCHANGED <<inputChunks, abortController, ppc, i, results,
                   progress, cancelBeforeStart, inflightAtAbort>>
    /\ UNCHANGED nonDispatchVars

\* lines 116-122, 136-141: Promise.all resolved.  processChunkWithRetry has no
\* path that rejects, so the catch block of lines 123-133 is never entered.
BatchComplete ==
    /\ ppc = "await"
    /\ BatchSettled
    /\ LET batch == Batch(i)
           batchResults == [k \in 1..Len(batch) |->
                               CHOOSE r \in task[batch[k].id].value : TRUE]
       IN  /\ results' = results \o batchResults
           /\ progress' = Append(progress,
                  <<ProgressCount(i, Len(batch)), Len(inputChunks)>>)
    /\ IF i + BATCH_SIZE < Len(inputChunks)
       THEN /\ ppc' = "delay"
            /\ i' = i
       ELSE /\ ppc' = "returned"
            /\ i' = i + BATCH_SIZE
    /\ UNCHANGED <<inputChunks, abortController, task,
                   cancelBeforeStart, inflightAtAbort>>
    /\ UNCHANGED nonDispatchVars

\* lines 137, 103-113: delay(500) is over; the next iteration tests the signal
\* and starts the next batch
InterBatchDelayDone ==
    /\ ppc = "delay"
    /\ i' = i + BATCH_SIZE
    /\ IF abortController = "aborted"
       THEN /\ ppc' = "thrown"
            /\ task' = task
       ELSE /\ ppc' = "await"
            /\ task' = StartBatch(i + BATCH_SIZE)
    /\ UNCHANGED <<inputChunks, abortController, results, progress,
                   cancelBeforeStart, inflightAtAbort>>
    /\ UNCHANGED nonDispatchVars

\* lines 290-294: abort(), called by the owner of the processor between two
\* tasks of the event loop (never between the last answer of a batch and the
\* continuation of Promise.all, which run in one turn)
Abort ==
    /\ ppc \in {"idle", "await", "delay"}
    /\ ~(ppc = "await" /\ BatchSettled)
    /\ IF abortController = "null"
       THEN /\ ~cancelBeforeStart
            /\ cancelBeforeStart' = TRUE
            /\ UNCHANGED <<abortController, inflightAtAbort>>
       ELSE /\ abortController = "active"
            /\ abortController' = "aborted"
            /\ inflightAtAbort' = {<<id, task[id].attempt>> :
                                     id \in {x \in InputIds : task[x].st = "calling"}}
            /\ UNCHANGED cancelBeforeStart
    /\ UNCHANGED <<inputChunks, ppc, i, results, progress, task>>
    /\ UNCHANGED nonDispatchVars

\* a run of processChunks nobody cancels
DispatchNext ==
    \/ ProcessChunksCall
    \/ \E id \in InputIds : AttemptSucceeds(id)
    \/ \E id \in InputIds : AttemptRejects(id)
    \/ \E id \in InputIds : AttemptTimesOut(id)
    \/ \E id \in InputIds : RetryDelayDone(id)
    \/ BatchComplete
    \/ InterBatchDelayDone

DispatchSpec == DispatchInit /\ [][DispatchNext]_vars

\* a run of processChunks whose owner may call abort() at any moment
CancelNext ==
    \/ ProcessChunksCall
    \/ \E id \in InputIds : AttemptSucceeds(id)
    \/ \E id \in InputIds : AttemptRejects(id)
    \/ \E id \in InputIds : AttemptTimesOut(id)
    \/ \E id \in InputIds : RetryDelayDone(id)
    \/ BatchComplete
    \/ InterBatchDelayDone
    \/ Abort

CancelSpec == DispatchInit /\ [][CancelNext]_vars

(***************************************************************************)
(* parseAnalysisResult on every shape of answer                            *)
(***************************************************************************)
\* longest parsed.errors array
MaxParseErrors == 2

ParseElements ==
    {NullElement, RawError("typo", "error", "teh", "the"),
     RawError("style", "info", "x", "y"), RawError("grammar", "", "", "")}
\* what the regular expressions of fallbackParse find in the answer
MatchLists == {<<>>, <<"recieve">>, <<"recieve", "teh">>}
ElementLists == UNION {[1..n -> ParseElements] : n \in 0..MaxParseErrors}
\* the answers of analyzeFunc, which are strings: text that is not JSON, and
\* JSON text of null, of a number, of an object without errors, with an errors
\* property that is not an array, and with an errors array
ParseResponses ==
    {[kind |-> "text", top |-> "none", hasErrors |-> FALSE, isArray |-> FALSE,
      errors |-> <<>>, matches |-> m] : m \in MatchLists}
    \cup {[kind |-> "json", top |-> t, hasErrors |-> FALSE, isArray |-> FALSE,
           errors |-> <<>>, matches |-> m] :
             t \in {"null", "number", "object"}, m \in MatchLists}
    \cup {[kind |-> "json", top |-> "object", hasErrors |-> TRUE, isArray |-> FALSE,
           errors |-> <<>>, matches |-> m] : m \in MatchLists}
    \cup {[kind |-> "json", top |-> "object", hasErrors |-> TRUE, isArray |-> TRUE,
           errors |-> es, matches |-> m] : es \in ElementLists, m \in MatchLists}

ParseChunk == InputChunk(1)

ParseInit ==
    /\ SplitParked
    /\ DispatchParked
    /\ MergeParked
    /\ ManagerParked
    /\ StreamParked
    /\ FileApiParked
    /\ PartialParked
    /\ SessionParked
    /\ RebuildParked
    /\ \E response \in ParseResponses : parse = [NoParse EXCEPT !.response = response]

\* lines 156-175 of an attempt whose analyzeFunc has answered: the answer is
\* parsed and the ChunkResult returned, or the catch of the attempt takes
\* what the parser raised
ParseAnswer ==
    /\ parse.pc = "init"
    /\ LET outcome == ParseOutcome(parse.response, ParseChunk)
       IN  parse' =
             IF outcome.raised
             THEN [parse EXCEPT !.pc = "caught", !.raised = TRUE]
             ELSE [parse EXCEPT !.pc = "returned",
                                !.result = SuccessResult(ParseChunk, parse.response,
                                                         AnalyzeLatency)]
    /\ UNCHANGED nonParseVars

ParseNext == ParseAnswer

ParseSpec == ParseInit /\ [][ParseNext]_vars

(***************************************************************************)
(* AISessionManager.initialize and analyzeText, called concurrently        *)
(***************************************************************************)
\* concurrent callers of one AISessionManager
MaxCallers == 2

Callers == 1..MaxCallers
IdleCaller == [op |-> "none", pc |-> "idle", code |-> "", sessionAtReturn |-> FALSE,
               initializingAtEnd |-> FALSE]
Availabilities == {"readily", "no", "after-download"}

SessionInit ==
    /\ SplitParked
    /\ DispatchParked
    /\ MergeParked
    /\ ManagerParked
    /\ StreamParked
    /\ FileApiParked
    /\ ParseParked
    /\ PartialParked
    /\ RebuildParked
    /\ session = [NoSession EXCEPT !.callers = [c \in Callers |-> IdleCaller]]

\* caller c returns from initialize(); analyzeText goes on after its await
InitializeReturns(s, c) ==
    IF s.callers[c].op = "initialize"
    THEN [s EXCEPT !.callers[c].pc = "returned",
                   !.callers[c].sessionAtReturn = (s.session # 0),
                   !.callers[c].initializingAtEnd = s.isInitializing]
    ELSE IF s.session = 0
         THEN [s EXCEPT !.callers[c].pc = "thrown",
                        !.callers[c].code = "SESSION_FAILED",
                        !.callers[c].initializingAtEnd = s.isInitializing]
         ELSE [s EXCEPT !.callers[c].pc = "prompting"]

\* lines 36-43: the head of initialize() up to its first await
InitializeHead(s, c) ==
    IF s.session # 0 \/ s.isInitializing THEN InitializeReturns(s, c)
    ELSE [s EXCEPT !.isInitializing = TRUE, !.callers[c].pc = "checking"]

\* caller c calls initialize()
CallInitialize(c) ==
    /\ session.callers[c].pc = "idle"
    /\ session' = InitializeHead([session EXCEPT !.callers[c].op = "initialize"], c)
    /\ UNCHANGED nonSessionVars

\* caller c calls analyzeText(), which calls initialize() if there is no
\* session
CallAnalyzeText(c) ==
    /\ session.callers[c].pc = "idle"
    /\ LET s == [session EXCEPT !.callers[c].op = "analyzeText"]
       IN  session' = IF s.session = 0 THEN InitializeHead(s, c)
                      ELSE [s EXCEPT !.callers[c].pc = "prompting"]
    /\ UNCHANGED nonSessionVars

\* checkAvailability resolves for caller c
AvailabilityResolves(c, availability) ==
    /\ session.callers[c].pc = "checking"
    /\ session' =
          IF availability = "readily"
          THEN [session EXCEPT !.callers[c].pc = "creating"]
          ELSE [session EXCEPT !.isInitializing = FALSE,
                               !.callers[c].pc = "thrown",
                               !.callers[c].code = IF availability = "no"
                                                   THEN "NOT_AVAILABLE"
                                                   ELSE "DOWNLOAD_REQUIRED"]
    /\ UNCHANGED nonSessionVars

\* LanguageModel.create resolves for caller c
CreateResolves(c) ==
    /\ session.callers[c].pc = "creating"
    /\ session' = InitializeReturns([session EXCEPT !.session = session.created + 1,
                                                    !.created = @ + 1,
                                                    !.isInitializing = FALSE], c)
    /\ UNCHANGED nonSessionVars

\* LanguageModel.create rejects for caller c
CreateRejects(c) ==
    /\ session.callers[c].pc = "creating"
    /\ session' = [session EXCEPT !.isInitializing = FALSE,
                                  !.callers[c].pc = "thrown",
                                  !.callers[c].code = "CREATE_REJECTED"]
    /\ UNCHANGED nonSessionVars

\* session.prompt settles for caller c
PromptSettles(c, ok) ==
    /\ session.callers[c].pc = "prompting"
    /\ session' = [session EXCEPT !.callers[c].pc = IF ok THEN "returned" ELSE "thrown",
                                  !.callers[c].code = IF ok THEN "" ELSE "PROMPT_FAILED",
                                  !.callers[c].sessionAtReturn = TRUE]
    /\ UNCHANGED nonSessionVars

SessionNext ==
    \/ \E c \in Callers : CallInitialize(c)
    \/ \E c \in Callers : CallAnalyzeText(c)
    \/ \E c \in Callers, availability \in Availabilities : AvailabilityResolves(c, availability)
    \/ \E c \in Callers : CreateResolves(c)
    \/ \E c \in Callers : CreateRejects(c)
    \/ \E c \in Callers, ok \in BOOLEAN : PromptSettles(c, ok)

SessionSpec == SessionInit /\ [][SessionNext]_vars

(***************************************************************************)
(* AISessionManager.analyzeTextStreaming.  A text is a sequence of tokens, *)
(* each standing for a piece of the answer of a known length in            *)
(* characters.                                                             *)
(***************************************************************************)
\* most tokens promptStreaming delivers before it ends
MaxFragments == 4
\* line 267: trimmed.length > 10
MIN_COMPLETE_LENGTH == 10

\* braces and brackets; the marker "errors" of a structured answer; a whole
\* record object; the full stop that ends a sentence; the phrase for "no
\* problem"; a blank
Tokens == {"{", "}", "[", "]", "SENTINEL", "RECORD", "STOP", "NO_PROBLEM", " "}
Width(token) ==
    CASE token = "SENTINEL" -> 8
      [] token = "RECORD" -> 12
      [] token = "NO_PROBLEM" -> 7
      [] OTHER -> 1

\* String.prototype.trim
RECURSIVE TrimStart(_)
TrimStart(t) == IF t # <<>> /\ Head(t) = " " THEN TrimStart(Tail(t)) ELSE t
RECURSIVE TrimEnd(_)
TrimEnd(t) ==
    IF t # <<>> /\ t[Len(t)] = " " THEN TrimEnd(SubSeq(t, 1, Len(t) - 1)) ELSE t
Trim(t) == TrimEnd(TrimStart(t))
\* String.prototype.length
RECURSIVE Length(_)
Length(t) == IF t = <<>> THEN 0 ELSE Width(Head(t)) + Length(Tail(t))
\* String.prototype.includes
TextIncludes(t, token) == \E n \in 1..Len(t) : t[n] = token
EndsWith(t, token) == t # <<>> /\ t[Len(t)] = token

IsResponseCompleteAnyLength(t) ==
    \/ TextIncludes(Trim(t), "NO_PROBLEM")
    \/ EndsWith(Trim(t), "STOP")
\* lines 263-274; of the phrases tested, the model's texts can hold the "no
\* problem" phrase and the full stop
IsResponseComplete(t) ==
    LET trimmed == Trim(t)
    IN  /\ Length(trimmed) > MIN_COMPLETE_LENGTH
        /\ \/ TextIncludes(trimmed, "NO_PROBLEM")
           \/ EndsWith(trimmed, "STOP")

\* line 140: chunk.slice(previousText.length)
NewText(chunk, previousText) == SubSeq(chunk, Len(previousText) + 1, Len(chunk))

PartialInit ==
    /\ SplitParked
    /\ DispatchParked
    /\ MergeParked
    /\ ManagerParked
    /\ StreamParked
    /\ FileApiParked
    /\ ParseParked
    /\ SessionParked
    /\ RebuildParked
    /\ partial = NoPartial

\* lines 113-134: the call, the session existing; promptStreaming is started
AnalyzeTextStreaming ==
    /\ partial.pc = "idle"
    /\ partial' = [partial EXCEPT !.pc = "streaming"]
    /\ UNCHANGED nonPartialVars

\* lines 136-166, one round of the loop: the stream delivers the text so far,
\* longer by one token; the item is yielded and the loop left if complete
ChunkArrives(token) ==
    /\ partial.pc = "streaming"
    /\ Len(partial.previousText) < MaxFragments
    /\ LET chunk == Append(partial.previousText, token)
           isComplete == IsResponseComplete(chunk)
           item == [chunk |-> NewText(chunk, partial.previousText),
                    partialErrors |-> <<>>,
                    isComplete |-> isComplete]
       IN  partial' = [partial EXCEPT !.previousText = chunk,
                                      !.yielded = Append(@, item),
                                      !.pc = IF isComplete THEN "done" ELSE "streaming"]
    /\ UNCHANGED nonPartialVars

\* promptStreaming ends before any chunk looked complete
PromptStreamEnds ==
    /\ partial.pc = "streaming"
    /\ partial' = [partial EXCEPT !.pc = "ended"]
    /\ UNCHANGED nonPartialVars

\* lines 168-175: promptStreaming rejects
PromptStreamFails ==
    /\ partial.pc = "streaming"
    /\ partial' = [partial EXCEPT !.pc = "thrown", !.code = "PROMPT_FAILED"]
    /\ UNCHANGED nonPartialVars

PartialNext ==
    \/ AnalyzeTextStreaming
    \/ \E token \in Tokens : ChunkArrives(token)
    \/ PromptStreamEnds
    \/ PromptStreamFails

PartialSpec == PartialInit /\ [][PartialNext]_vars

(***************************************************************************)
(* AIManager.initialize and the storage listener running createProvider    *)
(* concurrently.  A provider object is the number of its construction, 0   *)
(* for null; a run is one call of initialize() or of the listener, cut at  *)
(* its awaits.                                                             *)
(***************************************************************************)
\* most calls of initialize() and settings changes together
MaxRuns == 2

RebuildSettings ==
    {[provider |-> "chrome-nano", geminiApiKey |-> "", fallbackToChromeNano |-> TRUE],
     [provider |-> "gemini-api", geminiApiKey |-> "key", fallbackToChromeNano |-> TRUE],
     [provider |-> "gemini-api", geminiApiKey |-> "key", fallbackToChromeNano |-> FALSE]}

\* provider.destroy(): ChromeNanoProvider destroys the session its
\* AISessionManager holds at that moment, if any, and both classes clear
\* initialized; ?. skips null
DestroyProvider(r, h) ==
    IF h = 0 THEN r
    ELSE [r EXCEPT !.destroyed = @ \cup {h}, !.live = @ \ {h}, !.initialized = @ \ {h}]
\* new GeminiProvider(..) or new ChromeNanoProvider()
Construct(r, kind) == [r EXCEPT !.kinds = Append(@, kind)]
Newest(r) == Len(r.kinds)
\* whether a call of h.initialize() starts the work itself: not when the
\* provider is initialized already, nor when its session manager has a
\* session or is creating one (ai-session.ts line 37)
StartsInitialization(r, h) ==
    /\ h \notin r.initialized
    /\ r.kinds[h] = "nano" => (h \notin r.live /\ h \notin r.creating)
\* run k calls h.initialize() and awaits it at pc
AwaitInitialize(r, k, pc, h) ==
    LET starts == StartsInitialization(r, h)
    IN  [r EXCEPT !.creating = IF starts /\ r.kinds[h] = "nano" THEN @ \cup {h} ELSE @,
                  !.runs[k].pc = pc,
                  !.runs[k].awaiting = h,
                  !.runs[k].starts = starts]
\* the awaited initialize() of run k settles; the session, when one was
\* created, is stored whatever happened to the provider meanwhile
InitializeSettles(r, k, ok) ==
    LET h == r.runs[k].awaiting
        creates == r.runs[k].starts /\ r.kinds[h] = "nano"
    IN  [r EXCEPT !.creating = IF creates THEN @ \ {h} ELSE @,
                  !.live = IF creates /\ ok THEN @ \cup {h} ELSE @,
                  !.initialized = IF ok THEN @ \cup {h} ELSE @]
\* the run ends; initialize() sets isInitialized after createProvider returned
Finish(r, k, pc) ==
    [r EXCEPT !.runs[k].pc = pc,
              !.isInitialized = IF r.runs[k].kind = "initialize" /\ pc = "returned"
                                THEN TRUE ELSE @]

\* createProvider lines 435-487, up to its first await
CreateProviderHead(r, k, constructThrows) ==
    LET torn == DestroyProvider(DestroyProvider(r, r.currentProvider), r.fallbackProvider)
        kind == IF /\ r.settings.provider = "gemini-api"
                   /\ r.settings.geminiApiKey # ""
                   /\ ~constructThrows
                THEN "gemini" ELSE "nano"
        made == Construct(torn, kind)
        withPrimary == [made EXCEPT !.currentProvider = Newest(made)]
        wantsFallback == /\ r.settings.fallbackToChromeNano
                         /\ r.settings.provider = "gemini-api"
                         /\ kind = "gemini"
        both == Construct(withPrimary, "nano")
        withFallback == [both EXCEPT !.fallbackProvider = Newest(both)]
    IN  IF wantsFallback
        THEN AwaitInitialize(withFallback, k, "fallbackInit", withFallback.fallbackProvider)
        ELSE AwaitInitialize(withPrimary, k, "primaryInit", withPrimary.currentProvider)

IdleRun == [kind |-> "initialize", pc |-> "load", awaiting |-> 0, starts |-> FALSE]
RunsLeft == Len(rebuild.runs) < MaxRuns
Awaiting(k, pc) ==
    /\ k \in 1..Len(rebuild.runs)
    /\ rebuild.runs[k].pc = pc

RebuildInit ==
    /\ SplitParked
    /\ DispatchParked
    /\ MergeParked
    /\ ManagerParked
    /\ StreamParked
    /\ FileApiParked
    /\ ParseParked
    /\ PartialParked
    /\ SessionParked
    /\ rebuild = NoRebuild

\* initialize() lines 219-224: returns at once when initialized, else awaits
\* loadSettings()
CallManagerInitialize ==
    /\ RunsLeft
    /\ rebuild' = [rebuild EXCEPT !.runs = Append(@,
                       [IdleRun EXCEPT !.pc = IF rebuild.isInitialized
                                              THEN "returned" ELSE "load"])]
    /\ UNCHANGED nonRebuildVars

\* the stored settings change and the listener of lines 527-535 awaits
\* loadSettings()
SettingsChange(new) ==
    /\ RunsLeft
    /\ new # rebuild.stored
    /\ rebuild' = [rebuild EXCEPT !.stored = new,
                                  !.runs = Append(@, [IdleRun EXCEPT !.kind = "listener"])]
    /\ UNCHANGED nonRebuildVars

\* loadSettings() lines 421-433 resolves and the run goes on into
\* createProvider
LoadResolves(k, constructThrows) ==
    /\ Awaiting(k, "load")
    /\ constructThrows => rebuild.stored.provider = "gemini-api"
    /\ rebuild' = CreateProviderHead([rebuild EXCEPT !.settings = rebuild.stored],
                                     k, constructThrows)
    /\ UNCHANGED nonRebuildVars

\* lines 469-479, then 487-491: the fallback's initialize() settles; on
\* failure the slot is set to null; the primary, as the slot holds it now, is
\* initialized next
FallbackInitSettles(k, ok) ==
    /\ Awaiting(k, "fallbackInit")
    /\ ~rebuild.runs[k].starts => ok
    /\ LET settled == InitializeSettles(rebuild, k, ok)
           dropped == IF ok THEN settled ELSE [settled EXCEPT !.fallbackProvider = 0]
       IN  rebuild' = AwaitInitialize(dropped, k, "primaryInit", dropped.currentProvider)
    /\ UNCHANGED nonRebuildVars

\* lines 488-519: the primary's initialize() settles
PrimaryInitSettles(k, ok) ==
    /\ Awaiting(k, "primaryInit")
    /\ ~rebuild.runs[k].starts => ok
    /\ LET settled == InitializeSettles(rebuild, k, ok)
           torn == DestroyProvider(settled, settled.currentProvider)
           promoted == [torn EXCEPT !.currentProvider = settled.fallbackProvider,
                                    !.fallbackProvider = 0]
           made == Construct(torn, "nano")
           emergency == [made EXCEPT !.currentProvider = Newest(made)]
       IN  rebuild' =
             IF ok THEN Finish(settled, k, "returned")
             ELSE IF settled.fallbackProvider # 0 THEN Finish(promoted, k, "returned")
             ELSE AwaitInitialize(emergency, k, "emergencyInit", emergency.currentProvider)
    /\ UNCHANGED nonRebuildVars

\* lines 508-515: the last-resort provider's initialize() settles
EmergencyInitSettles(k, ok) ==
    /\ Awaiting(k, "emergencyInit")
    /\ ~rebuild.runs[k].starts => ok
    /\ rebuild' = Finish(InitializeSettles(rebuild, k, ok), k,
                         IF ok THEN "returned" ELSE "thrown")
    /\ UNCHANGED nonRebuildVars

RebuildNext ==
    \/ CallManagerInitialize
    \/ \E new \in RebuildSettings : SettingsChange(new)
    \/ \E k \in 1..MaxRuns, constructThrows \in BOOLEAN : LoadResolves(k, constructThrows)
    \/ \E k \in 1..MaxRuns, ok \in BOOLEAN : FallbackInitSettles(k, ok)
    \/ \E k \in 1..MaxRuns, ok \in BOOLEAN : PrimaryInitSettles(k, ok)
    \/ \E k \in 1..MaxRuns, ok \in BOOLEAN : EmergencyInitSettles(k, ok)

RebuildSpec == RebuildInit /\ [][RebuildNext]_vars

(***************************************************************************)
(* mergeResults                                                            *)
(***************************************************************************)
\* longest flattened list of records merged
MaxMergeRecords == 3

\* A string is the sequence of its pieces; COLON is the character ":" of the
\* key template of line 306, the other pieces hold no colon.
COLON == ":"

\* The (type, original, suggestion) values of the records merged.
MergeKinds ==
    { [type |-> "typo", original |-> <<"a">>, suggestion |-> <<"c">>],
      [type |-> "typo", original |-> <<"a", COLON, "b">>, suggestion |-> <<"c">>],
      [type |-> "typo", original |-> <<"a">>, suggestion |-> <<"b", COLON, "c">>],
      [type |-> "grammar", original |-> <<"a">>, suggestion |-> <<"c">>] }
Severities == {"error", "warning", "info"}

\* a TypoError of chunk `id`
MergeRecord(kind, severity, id) ==
    [type |-> kind.type, severity |-> severity, original |-> kind.original,
     suggestion |-> kind.suggestion, chunkId |-> id]

\* lines 303-304: the records in the order the two loops visit them
RECURSIVE Flatten(_)
Flatten(rs) ==
    IF rs = <<>> THEN <<>> ELSE Head(rs).errors \o Flatten(Tail(rs))

\* line 306: `${error.type}:${error.original}:${error.suggestion}`
ErrorKey(e) == <<e.type, COLON>> \o e.original \o <<COLON>> \o e.suggestion

\* lines 301-312 on the records in visiting order: a record is pushed unless
\* the key of an earlier record equals its key
Dedup(flat) ==
    LET step[k \in 0..Len(flat)] ==
            IF k = 0 THEN [seenErrors |-> {}, allErrors |-> <<>>]
            ELSE LET before == step[k - 1]
                     errorKey == ErrorKey(flat[k])
                 IN  IF errorKey \notin before.seenErrors
                     THEN [seenErrors |-> before.seenErrors \cup {errorKey},
                           allErrors |-> Append(before.allErrors, flat[k])]
                     ELSE before
    IN  step[Len(flat)].allErrors

\* lines 301-312 on the list of results; seenErrors is shared by all results
DedupResults(rs) == Dedup(Flatten(rs))

\* line 317: severityOrder[severity] || 1.  || takes its right side when the
\* left is undefined and when it is 0.
SeverityOrder == [error |-> 0, warning |-> 1, info |-> 2]
SortRank(severity) ==
    IF severity \in DOMAIN SeverityOrder /\ SeverityOrder[severity] # 0
    THEN SeverityOrder[severity]
    ELSE 1

\* lines 315-318: Array.prototype.sort is stable; insertion after the last
\* element that does not compare greater
RECURSIVE InsertSorted(_, _)
InsertSorted(sorted, e) ==
    IF sorted = <<>> THEN <<e>>
    ELSE LET last == sorted[Len(sorted)]
         IN  IF SortRank(last.severity) - SortRank(e.severity) > 0
             THEN Append(InsertSorted(SubSeq(sorted, 1, Len(sorted) - 1), e), last)
             ELSE Append(sorted, e)

RECURSIVE SortBySeverity(_)
SortBySeverity(list) ==
    IF list = <<>> THEN <<>>
    ELSE InsertSorted(SortBySeverity(SubSeq(list, 1, Len(list) - 1)), list[Len(list)])

\* lines 299-319
MergeResults(rs) == SortBySeverity(DedupResults(rs))

\* the result of chunk `id` holding the given records
ResultOf(id, kinds, sevs) ==
    [chunkId |-> id,
     errors |-> [k \in 1..Len(kinds) |-> MergeRecord(kinds[k], sevs[k], id)],
     processingTime |-> AnalyzeLatency]

\* Every list of two results, of chunks 0 and 1, holding at most
\* MaxMergeRecords records together.
MergeInit ==
    /\ ParseParked
    /\ PartialParked
    /\ SessionParked
    /\ RebuildParked
    /\ SplitParked
    /\ DispatchParked
    /\ ManagerParked
    /\ StreamParked
    /\ FileApiParked
    /\ \E n \in 0..MaxMergeRecords :
         \E kinds \in [1..n -> MergeKinds], sevs \in [1..n -> Severities], cut \in 0..n :
            mergeInput = <<ResultOf(0, SubSeq(kinds, 1, cut), SubSeq(sevs, 1, cut)),
                           ResultOf(1, SubSeq(kinds, cut + 1, n), SubSeq(sevs, cut + 1, n))>>
    /\ mergeOutput = <<>>
    /\ mpc = "init"

MergeCall ==
    /\ mpc = "init"
    /\ mergeOutput' = MergeResults(mergeInput)
    /\ mpc' = "done"
    /\ UNCHANGED mergeInput
    /\ UNCHANGED nonMergeVars

MergeNext == MergeCall

MergeSpec == MergeInit /\ [][MergeNext]_vars

(***************************************************************************)
(* Claims about processChunks (DispatchSpec: nobody cancels; CancelSpec:   *)
(* abort() may be called at any moment).                                   *)
(***************************************************************************)
Settled(id) == task[id].st = "done"
ValueOf(id) == CHOOSE r \in task[id].value : TRUE
\* every attempt of the chunk failed
Exhausted(id) == Settled(id) /\ task[id].fails > RETRY_ATTEMPTS
\* the records analyzeFunc's answer for the chunk holds
AnswerRecords(id) == ParseAnalysisResult(AnalyzeResponse(InputChunk(id)), InputChunk(id))

\* C6: when analyzeFunc fails (by error or timeout) on its first N calls for a
\* chunk and then answers, the chunk's result holds the records of the answer
\* if N <= RETRY_ATTEMPTS and is the degraded result without records if
\* N > RETRY_ATTEMPTS; each chunk's result depends on the failures of that chunk
\* alone, and it is the result the run collects for the chunk.
C6_RetriesDecideTheResult ==
    /\ \A id \in InputIds :
          Settled(id) =>
             /\ ValueOf(id).chunkId = id
             /\ task[id].fails <= RETRY_ATTEMPTS => ValueOf(id).errors = AnswerRecords(id)
             /\ task[id].fails > RETRY_ATTEMPTS => ValueOf(id).errors = <<>>
    /\ \A k \in 1..Len(results) :
          /\ results[k].chunkId \in InputIds
          /\ Settled(results[k].chunkId)
          /\ results[k] = ValueOf(results[k].chunkId)

C6_Witness ==
    /\ ppc = "returned"
    /\ \E a, b, c \in InputIds :
          /\ task[a].fails = RETRY_ATTEMPTS
          /\ ValueOf(a).errors # <<>>
          /\ task[b].fails = RETRY_ATTEMPTS + 1
          /\ ValueOf(b).errors = <<>>
          /\ task[c].fails = 0
          /\ ValueOf(c).errors = AnswerRecords(c)
          /\ AnswerRecords(c) # <<>>
          /\ \E k \in 1..Len(results) : results[k] = ValueOf(c)

\* C7: a run that is not cancelled never throws, whatever attempts fail or time
\* out, and returns exactly one result per input chunk, in the order of the
\* input chunks.
C7_FailuresAreAbsorbed ==
    abortController # "aborted" =>
        /\ ppc # "thrown"
        /\ ppc = "returned" =>
              /\ Len(results) = Len(inputChunks)
              /\ \A k \in 1..Len(results) : results[k].chunkId = inputChunks[k].id

C7_Witness ==
    /\ ppc = "returned"
    /\ abortController = "active"
    /\ Len(inputChunks) = MaxInputChunks
    /\ Len(results) = MaxInputChunks
    /\ \E id \in InputIds : Exhausted(id)
    /\ \E id \in InputIds : Settled(id) /\ ~Exhausted(id)

\* the retry delays a chunk has waited when its last attempt fails
RECURSIVE SumRetryDelays(_)
SumRetryDelays(attempts) ==
    IF attempts = 0 THEN 0 ELSE RetryDelayOf(attempts - 1) + SumRetryDelays(attempts - 1)

\* C8 (as stated): a chunk whose attempts are all exhausted yields a result
\* with no records and an elapsed time of exactly zero.
C8_ExhaustedHasZeroElapsed ==
    \A id \in InputIds :
        Exhausted(id) => (ValueOf(id).errors = <<>> /\ ValueOf(id).processingTime = 0)

\* C8 (amended): a chunk whose attempts are all exhausted yields a result with
\* no records and, as elapsed time, the time since its processing started: all
\* its attempts and the retry delays between them, so never zero.
C8_ExhaustedKeepsElapsed ==
    \A id \in InputIds :
        Exhausted(id) =>
            /\ ValueOf(id).errors = <<>>
            /\ ValueOf(id).processingTime = task[id].elapsed
            /\ ValueOf(id).processingTime >= SumRetryDelays(RETRY_ATTEMPTS)
            /\ ValueOf(id).processingTime > 0

C8_Witness ==
    /\ ppc = "returned"
    /\ \E k \in 1..Len(results) :
          /\ Exhausted(results[k].chunkId)
          /\ results[k].errors = <<>>
          /\ results[k].processingTime >= SumRetryDelays(RETRY_ATTEMPTS) + TIMEOUT

\* C9: when cancellation is requested before a batch starts, no further
\* analyzeFunc call is started and processChunks returns the results collected
\* so far without throwing: a cancelled run never ends in an exception, and the
\* chunks of the batches after the cancellation are never analysed.
C9_CancelReturnsWithoutThrowing ==
    /\ ppc # "thrown"
    /\ abortController = "aborted" /\ ppc \in {"returned", "thrown"} =>
          \A id \in InputIds : id >= Len(results) => task[id].calls = 0

\* C10: once cancellation has been requested, no attempt that was in flight at
\* that moment contributes records to the list the run returns.
C10_CancelledAttemptsContributeNothing ==
    ppc = "returned" =>
        \A k \in 1..Len(results) :
            <<results[k].chunkId, task[results[k].chunkId].attempt>> \in inflightAtAbort
                => results[k].errors = <<>>

\* the batch a chunk belongs to: chunk ids are the positions in the input list
BatchOf(id) == id \div BATCH_SIZE
Collected(id) == \E k \in 1..Len(results) : results[k].chunkId = id

\* C11: batches run in index order, one after the other: no analyzeFunc call for
\* a chunk of a later batch is started before every chunk of every earlier batch
\* has produced its result and the result has been collected, and the result
\* list holds the results of an earlier batch before those of a later one.
C11_BatchesRunInOrder ==
    /\ \A a, b \in InputIds :
          (BatchOf(a) < BatchOf(b) /\ task[b].calls > 0) => (Settled(a) /\ Collected(a))
    /\ \A k, l \in 1..Len(results) :
          k < l => BatchOf(results[k].chunkId) <= BatchOf(results[l].chunkId)

C11_Witness ==
    /\ ppc = "returned"
    /\ Len(inputChunks) > BATCH_SIZE
    /\ \E a, b \in InputIds :
          /\ BatchOf(a) < BatchOf(b)
          /\ task[a].fails > 0
          /\ task[b].calls > 0
          /\ Collected(a) /\ Collected(b)

RECURSIVE SumOver(_, _)
SumOver(f, S) ==
    IF S = {} THEN 0
    ELSE LET x == CHOOSE y \in S : TRUE IN f[x] + SumOver(f, S \ {x})

\* the analyzeFunc calls started and not settled
InFlight ==
    SumOver([id \in InputIds |->
                (IF task[id].st = "calling" THEN 1 ELSE 0) + task[id].hung], InputIds)

\* C12: at every moment of a run at most BATCH_SIZE analyzeFunc calls have been
\* started and have not settled, whatever attempts fail, time out or are
\* retried.
C12_ConcurrencyIsBounded == InFlight <= BATCH_SIZE

\* the batches whose results have been collected
BatchesDone ==
    IF ppc = "delay" THEN i \div BATCH_SIZE + 1
    ELSE IF ppc = "returned" THEN (Len(inputChunks) + BATCH_SIZE - 1) \div BATCH_SIZE
    ELSE i \div BATCH_SIZE

\* C13: onProgress is called exactly once after each batch completes, with the
\* number of results collected so far and the number of input chunks; the count
\* grows strictly from call to call, and the last call of a run that is not
\* cancelled reports all chunks.
C13_ProgressAfterEachBatch ==
    /\ Len(progress) = BatchesDone
    /\ \A k \in 1..Len(progress) :
          /\ progress[k][2] = Len(inputChunks)
          /\ progress[k][1] = Cardinality({id \in InputIds : BatchOf(id) < k})
          /\ k > 1 => progress[k][1] > progress[k - 1][1]
    /\ IF progress = <<>> THEN results = <<>>
       ELSE progress[Len(progress)][1] = Len(results)
    /\ (ppc = "returned" /\ inputChunks # <<>>) =>
          progress[Len(progress)] = <<Len(inputChunks), Len(inputChunks)>>

C13_Witness ==
    /\ ppc = "returned"
    /\ Len(inputChunks) = BATCH_SIZE + 1
    /\ progress = <<<<BATCH_SIZE, BATCH_SIZE + 1>>, <<BATCH_SIZE + 1, BATCH_SIZE + 1>>>>
    /\ \E id \in InputIds : Exhausted(id)

(***************************************************************************)
(* Claims about mergeResults (MergeSpec).                                  *)
(***************************************************************************)
\* the rank the merge is meant to order by
SeverityRank(severity) ==
    IF severity = "error" THEN 0 ELSE IF severity = "info" THEN 2 ELSE 1
Triple(e) == <<e.type, e.original, e.suggestion>>
MergeFlat == Flatten(mergeInput)

\* C14: the output of merge is in ascending severity rank, error(0) before
\* warning(1) before info(2): no error record after a warning or info record,
\* no warning record after an info record.
C14_OutputIsSeverityAscending ==
    mpc = "done" =>
        \A k, l \in 1..Len(mergeOutput) :
            k < l => SeverityRank(mergeOutput[k].severity)
                        <= SeverityRank(mergeOutput[l].severity)

\* C15: when several input records share one (type, original, suggestion),
\* merge keeps the first of them in flattened input order, and only that one.
C15_FirstOccurrenceWins ==
    mpc = "done" =>
        \A k \in 1..Len(MergeFlat) :
            LET same == {j \in 1..Len(MergeFlat) : Triple(MergeFlat[j]) = Triple(MergeFlat[k])}
                first == CHOOSE j \in same : \A x \in same : j <= x
                kept == {o \in 1..Len(mergeOutput) :
                            Triple(mergeOutput[o]) = Triple(MergeFlat[k])}
            IN  Cardinality(same) > 1 =>
                    /\ Cardinality(kept) = 1
                    /\ \A o \in kept : mergeOutput[o] = MergeFlat[first]

TripleSet(list) == {Triple(list[k]) : k \in 1..Len(list)}
Permuted(list) ==
    {[k \in 1..Len(list) |-> list[p[k]]] :
        p \in {q \in [1..Len(list) -> 1..Len(list)] :
                  \A a, b \in 1..Len(list) : q[a] = q[b] => a = b}}

\* C16: the set of (type, original, suggestion) values in the output of merge
\* is the same for every order of the input results (their chunk ids being
\* distinct), and merging the output of a merge again returns the same record
\* list.
C16_MergeIgnoresResultOrder ==
    mpc = "done" =>
        /\ \A rs \in Permuted(mergeInput) :
              TripleSet(MergeResults(rs)) = TripleSet(mergeOutput)
        /\ MergeResults(<<[chunkId |-> 0, errors |-> mergeOutput,
                           processingTime |-> 0]>>) = mergeOutput


(***************************************************************************)
(* AIManager.analyzeContent: the primary provider, the classification of   *)
(* its failure and the retry on the fallback provider.  Messages are       *)
(* sequences of words; a code with a status is <<prefix, status>>.         *)
(***************************************************************************)
Statuses == {"400", "401", "429", "500", "503"}
\* why a request of the primary fails: an HTTP status that is not ok, a
\* rejected fetch, or an answer without text
PrimaryCauses ==
    {[kind |-> "http", status |-> st] : st \in Statuses}
        \cup {[kind |-> "network", status |-> ""],
              [kind |-> "emptyResponse", status |-> ""]}
FallbackCauses == {"promptFailed", "sessionFailed"}

\* BaseAIProvider.createError: a plain object, not an Error
CreateError(code, message) ==
    [isError |-> FALSE, name |-> "", hasCode |-> TRUE, code |-> code,
     hasStatus |-> FALSE, status |-> "", hasUserMessage |-> FALSE,
     message |-> message]
\* new Error(message) and its subclasses
NewError(name, message) ==
    [isError |-> TRUE, name |-> name, hasCode |-> FALSE, code |-> <<>>,
     hasStatus |-> FALSE, status |-> "", hasUserMessage |-> FALSE,
     message |-> message]
\* the ApiError of the SDK: an Error with a status
ApiError(status) ==
    [isError |-> TRUE, name |-> "ApiError", hasCode |-> FALSE, code |-> <<>>,
     hasStatus |-> TRUE, status |-> status, hasUserMessage |-> FALSE,
     message |-> <<"got", "status", status>>]
MessageOrUnknown(e) == IF e.isError THEN e.message ELSE <<"Unknown", "error">>

\* GeminiProvider.getErrorMessage (fetch provider), one message per status
GetErrorMessage(status) ==
    CASE status = "400" -> <<"request", "is", "invalid">>
      [] status = "401" -> <<"API", "key", "is", "invalid">>
      [] status = "429" -> <<"request", "limit", "reached">>
      [] status = "500" -> <<"server", "error">>
      [] status = "503" -> <<"service", "unavailable">>
      [] OTHER -> <<"API", "error", status>>

\* the fetch provider: what the try block throws for a cause ...
FetchThrown(cause) ==
    CASE cause.kind = "http" ->
            CreateError(<<"GEMINI_API_ERROR_", cause.status>>,
                        GetErrorMessage(cause.status))
      [] cause.kind = "network" -> NewError("TypeError", <<"Failed", "to", "fetch">>)
      [] OTHER -> CreateError(<<"EMPTY_RESPONSE">>, <<"Empty", "response">>)
\* ... and what its catch block makes of it
FetchCatch(e) ==
    IF e.isError /\ e.name = "AbortError" THEN e
    ELSE IF e.isError /\ e.hasCode THEN e
    ELSE CreateError(<<"REQUEST_FAILED">>,
                     <<"Failed", "to", "analyze", "content:">> \o MessageOrUnknown(e))

\* the SDK provider: what the try block throws for a cause ...
SdkThrown(cause) ==
    CASE cause.kind = "http" -> ApiError(cause.status)
      [] cause.kind = "network" -> NewError("TypeError", <<"fetch", "failed">>)
      [] OTHER -> CreateError(<<"EMPTY_RESPONSE">>, <<"Empty", "response">>)
\* ... and what its catch block makes of it
SdkCatch(e) ==
    IF e.hasCode /\ e.hasUserMessage THEN e
    ELSE IF e.hasStatus
         THEN CreateError(<<"GEMINI_SDK_ERROR_", e.status>>, <<"SDK", "error", e.status>>)
         ELSE CreateError(<<"GEMINI_UNKNOWN_ERROR">>, <<"unknown", "error">>)

\* currentProvider.analyzeContent rejecting
PrimaryThrows(variant, cause) ==
    IF variant = "fetch" THEN FetchCatch(FetchThrown(cause))
    ELSE SdkCatch(SdkThrown(cause))

\* ChromeNanoProvider.analyzeContent rejecting: the session's AIError, rebuilt
NanoThrows(cause) ==
    IF cause = "promptFailed"
    THEN CreateError(<<"PROMPT_FAILED">>, <<"content", "analysis", "failed">>)
    ELSE CreateError(<<"SESSION_FAILED">>, <<"session", "creation", "failed">>)

FallbackCodes ==
    {<<"REQUEST_FAILED">>, <<"GEMINI_API_ERROR_", "429">>,
     <<"GEMINI_API_ERROR_", "503">>, <<"GEMINI_API_ERROR_", "500">>}
\* String.prototype.includes on a message, word by word
Includes(message, word) == \E k \in 1..Len(message) : message[k] = word

ShouldFallbackNever(error) == FALSE
\* AIManager.shouldFallback
ShouldFallback(error) ==
    IF error.hasCode THEN error.code \in FallbackCodes
    ELSE IF error.isError
         THEN \/ Includes(error.message, "fetch")
              \/ Includes(error.message, "network")
              \/ Includes(error.message, "timeout")
         ELSE FALSE

\* AIManager.createCombinedError
CreateCombinedError(primary, fallback) ==
    NewError("Error",
             <<"Both", "AI", "providers", "failed.", "Primary:">>
                 \o (IF primary.isError THEN primary.message
                     ELSE <<"Primary", "provider", "failed">>)
                 \o <<".", "Fallback:">>
                 \o (IF fallback.isError THEN fallback.message
                     ELSE <<"Fallback", "provider", "failed">>))

\* getProviderName of the two providers, and the name the manager reports
\* for an answer of the fallback
GeminiName == <<"Google ", "Gemini", " API">>
NanoName == <<"Chrome Built-in AI", " (", "Gemini", " Nano)">>
FallbackName == NanoName \o <<" (fallback)">>


\* what chrome.storage can hold as aiSettings
SettingsSet ==
    [provider : {"gemini-api", "chrome-nano"}, geminiApiKey : {"", "key"},
     fallbackToChromeNano : BOOLEAN]
NanoCauses == {[kind |-> c, status |-> ""] : c \in FallbackCauses}
\* the ways a request of a provider object can fail, by its class
CausesOf(handle) == IF handle.kind = "gemini" THEN PrimaryCauses ELSE NanoCauses
\* handle.analyzeContent rejecting
ProviderThrows(handle, cause) ==
    IF handle.kind = "gemini" THEN PrimaryThrows(providerVariant, cause)
    ELSE NanoThrows(cause.kind)
\* handle.getProviderName()
NameOf(handle) == IF handle.kind = "gemini" THEN GeminiName ELSE NanoName

\* a new AIManager; chrome.storage holds any settings
ManagerInit ==
    /\ ParseParked
    /\ PartialParked
    /\ SessionParked
    /\ RebuildParked
    /\ SplitParked
    /\ DispatchParked
    /\ MergeParked
    /\ providerVariant \in {"fetch", "sdk"}
    /\ storedSettings \in SettingsSet
    /\ ManagerConstructed
    /\ StreamParked
    /\ FileApiParked

FallbackSlotKeepsFailed(wantsFallback, fallbackInitOk, new) ==
    IF wantsFallback THEN new ELSE fallbackProvider
\* lines 466-485: this.fallbackProvider after the fallback block: the new
\* object if one is wanted and its initialize succeeds, null if that fails,
\* and what the field held before if none is wanted
FallbackSlot(wantsFallback, fallbackInitOk, new) ==
    IF wantsFallback
    THEN (IF fallbackInitOk THEN new ELSE NullHandle)
    ELSE fallbackProvider

\* AIManager.createProvider with the settings s just loaded.  The four
\* booleans say whether new GeminiProvider, the fallback's initialize, the
\* primary's initialize and the last resort's initialize succeed.
CreateProvider(s, byInitialize, constructOk, fallbackInitOk, primaryInitOk, lastResortOk) ==
    LET before == {currentProvider, fallbackProvider} \ {NullHandle}
        gemini == s.provider = "gemini-api" /\ s.geminiApiKey # "" /\ constructOk
        primary == Handle(IF gemini THEN "gemini" ELSE "nano", built + 1)
        wantsFallback == s.fallbackToChromeNano /\ s.provider = "gemini-api" /\ gemini
        fallback == FallbackSlot(wantsFallback, fallbackInitOk, Handle("nano", built + 2))
        built1 == IF wantsFallback THEN built + 2 ELSE built + 1
        promote == ~primaryInitOk /\ fallback # NullHandle
        lastResort == ~primaryInitOk /\ fallback = NullHandle
    IN  /\ currentProvider' = IF primaryInitOk THEN primary
                              ELSE IF promote THEN fallback
                              ELSE Handle("nano", built1 + 1)
        /\ fallbackProvider' = IF promote THEN NullHandle ELSE fallback
        /\ destroyed' = destroyed \cup before
                            \cup (IF primaryInitOk THEN {} ELSE {primary})
        /\ built' = IF lastResort THEN built1 + 1 ELSE built1
        /\ lastBuild' = [ran |-> TRUE, byInitialize |-> byInitialize,
                         threw |-> lastResort /\ ~lastResortOk,
                         constructFailed |-> /\ s.provider = "gemini-api"
                                             /\ s.geminiApiKey # ""
                                             /\ ~constructOk,
                         before |-> before,
                         wantsFallback |-> wantsFallback,
                         fallbackInitOk |-> wantsFallback /\ fallbackInitOk,
                         primaryInitOk |-> primaryInitOk,
                         fallbackAtFailure |-> IF primaryInitOk THEN NullHandle
                                               ELSE fallback,
                         fresh |-> {Handle(k, n) : k \in {"gemini", "nano"},
                                                   n \in (built + 1)..(built + 3)}]
        /\ used' = IF apc \in {"primary", "fallback"}
                   THEN [used EXCEPT !.rebuilt = TRUE] ELSE used

\* lines 219-232: initialize(), reached through ensureInitialized
Initialize(constructOk, fallbackInitOk, primaryInitOk, lastResortOk) ==
    /\ ~isInitialized
    /\ built + 3 <= MaxHandles
    /\ settingsProvider' = storedSettings.provider
    /\ geminiApiKey' = storedSettings.geminiApiKey
    /\ fallbackToChromeNano' = storedSettings.fallbackToChromeNano
    /\ CreateProvider(storedSettings, TRUE, constructOk, fallbackInitOk,
                      primaryInitOk, lastResortOk)
    /\ isInitialized' = ~lastBuild'.threw
    /\ UNCHANGED <<providerVariant, storedSettings, apc, primaryCause, primaryError,
                   errorDetails, fallbackError, fallbackCalls, answer>>
    /\ UNCHANGED nonManagerVars

\* lines 234-249: analyzeContent is called and awaits the primary
AnalyzeContent ==
    /\ isInitialized
    /\ apc \in {"idle", "returned", "thrown"}
    /\ apc' = "primary"
    /\ primaryCause' = NoCause
    /\ primaryError' = NoError
    /\ errorDetails' = NoDetails
    /\ fallbackError' = NoError
    /\ fallbackCalls' = 0
    /\ answer' = NoAnswer
    /\ used' = [NoneUsed EXCEPT !.called = currentProvider,
                                !.fallbackAtStart = fallbackProvider]
    /\ UNCHANGED <<providerVariant, storedSettings, configVars>>
    /\ UNCHANGED nonManagerVars

\* lines 249-255: the primary resolves; the name is read from
\* this.currentProvider after the await
PrimarySucceeds ==
    /\ apc = "primary"
    /\ apc' = "returned"
    /\ answer' = [kind |-> "result", provider |-> NameOf(currentProvider),
                  from |-> "primary"]
    /\ used' = [used EXCEPT !.reported = currentProvider]
    /\ UNCHANGED <<providerVariant, storedSettings, configVars,
                   primaryCause, primaryError, errorDetails, fallbackError,
                   fallbackCalls>>
    /\ UNCHANGED nonManagerVars

\* lines 256-274 and 291-301: the primary rejects; the catch classifies the
\* error and either calls the fallback or rethrows
PrimaryFails(cause) ==
    /\ apc = "primary"
    /\ cause \in CausesOf(used.called)
    /\ LET error == ProviderThrows(used.called, cause)
           details == [shouldFallback |-> ShouldFallback(error),
                       fallbackAvailable |-> fallbackProvider # NullHandle,
                       fallbackEnabled |-> fallbackToChromeNano]
       IN  /\ primaryCause' = cause
           /\ primaryError' = error
           /\ errorDetails' = details
           /\ IF /\ details.shouldFallback
                 /\ details.fallbackAvailable
                 /\ details.fallbackEnabled
              THEN /\ apc' = "fallback"
                   /\ fallbackCalls' = fallbackCalls + 1
                   /\ used' = [used EXCEPT !.fallbackCalled = fallbackProvider]
                   /\ UNCHANGED answer
              ELSE /\ apc' = "thrown"
                   /\ answer' = [kind |-> "error", error |-> error]
                   /\ UNCHANGED <<fallbackCalls, used>>
    /\ UNCHANGED <<providerVariant, storedSettings, configVars, fallbackError>>
    /\ UNCHANGED nonManagerVars

\* lines 275-288: the fallback resolves; this.fallbackProvider is read again
\* for the name, and a null there throws into the catch of line 289
FallbackSucceeds ==
    /\ apc = "fallback"
    /\ IF fallbackProvider = NullHandle
       THEN LET error == NewError("TypeError", <<"Cannot", "read", "properties", "of", "null">>)
            IN  /\ apc' = "thrown"
                /\ fallbackError' = error
                /\ answer' = [kind |-> "error",
                              error |-> CreateCombinedError(primaryError, error)]
                /\ UNCHANGED used
       ELSE /\ apc' = "returned"
            /\ answer' = [kind |-> "result",
                          provider |-> NameOf(fallbackProvider) \o <<" (fallback)">>,
                          from |-> "fallback"]
            /\ used' = [used EXCEPT !.reported = fallbackProvider]
            /\ UNCHANGED fallbackError
    /\ UNCHANGED <<providerVariant, storedSettings, configVars,
                   primaryCause, primaryError, errorDetails, fallbackCalls>>
    /\ UNCHANGED nonManagerVars

\* lines 289-296: the fallback rejects too
FallbackFails(cause) ==
    /\ apc = "fallback"
    /\ apc' = "thrown"
    /\ fallbackError' = NanoThrows(cause)
    /\ answer' = [kind |-> "error",
                  error |-> CreateCombinedError(primaryError, NanoThrows(cause))]
    /\ UNCHANGED <<providerVariant, storedSettings, configVars,
                   primaryCause, primaryError, errorDetails, fallbackCalls, used>>
    /\ UNCHANGED nonManagerVars

\* setupStorageListener: aiSettings in chrome.storage change to s; loadSettings
\* and createProvider run again
SettingsChanged(s, constructOk, fallbackInitOk, primaryInitOk, lastResortOk) ==
    /\ built + 3 <= MaxHandles
    /\ storedSettings' = s
    /\ settingsProvider' = s.provider
    /\ geminiApiKey' = s.geminiApiKey
    /\ fallbackToChromeNano' = s.fallbackToChromeNano
    /\ CreateProvider(s, FALSE, constructOk, fallbackInitOk, primaryInitOk,
                      lastResortOk)
    /\ UNCHANGED <<providerVariant, isInitialized, apc, primaryCause, primaryError,
                   errorDetails, fallbackError, fallbackCalls, answer>>
    /\ UNCHANGED nonManagerVars

ManagerNext ==
    \/ \E c, f, q, l \in BOOLEAN : Initialize(c, f, q, l)
    \/ AnalyzeContent
    \/ PrimarySucceeds
    \/ \E cause \in PrimaryCauses \cup NanoCauses : PrimaryFails(cause)
    \/ FallbackSucceeds
    \/ \E cause \in FallbackCauses : FallbackFails(cause)
    \/ \E s \in SettingsSet : \E c, f, q, l \in BOOLEAN : SettingsChanged(s, c, f, q, l)

ManagerSpec == ManagerInit /\ [][ManagerNext]_vars

(***************************************************************************)
(* Claims about AIManager.analyzeContent.                                  *)
(***************************************************************************)
PrimaryFailed == apc \in {"fallback", "returned", "thrown"} /\ primaryCause # NoCause
RequestFailed == primaryError.hasCode /\ primaryError.code = <<"REQUEST_FAILED">>

\* C17: when the primary fails with a REQUEST_FAILED error: with the fallback
\* present and fail-over enabled, the fallback is called and its answer, once
\* it succeeds, is returned under the fallback's name marked "(fallback)";
\* with fail-over disabled the caller gets the primary's error and the
\* fallback is not called.
C17_FailoverFollowsTheSetting ==
    (PrimaryFailed /\ RequestFailed) =>
        /\ (errorDetails.fallbackEnabled /\ errorDetails.fallbackAvailable) =>
              /\ fallbackCalls = 1
              /\ apc = "returned" =>
                    answer = [kind |-> "result", provider |-> FallbackName,
                              from |-> "fallback"]
        /\ ~errorDetails.fallbackEnabled =>
              /\ apc = "thrown"
              /\ answer = [kind |-> "error", error |-> primaryError]
              /\ fallbackCalls = 0
C17_Witness ==
    /\ PrimaryFailed
    /\ RequestFailed
    /\ errorDetails.fallbackEnabled
    /\ apc = "returned"
    /\ answer.provider = FallbackName

IsRateLimit(cause) == cause.kind = "http" /\ cause.status = "429"
IsServerSide(cause) == cause.kind = "http" /\ cause.status \in {"500", "503"}
IsNetwork(cause) == cause.kind = "network"
Transient(cause) == IsRateLimit(cause) \/ IsServerSide(cause) \/ IsNetwork(cause)

\* C18: when the primary's request fails by a rate limit, a server-side error
\* or a network failure, and the fallback exists and is enabled, the failure
\* is classified as fallback-eligible and the fallback is called.
C18_TransientFailuresFailOver ==
    (/\ PrimaryFailed
     /\ Transient(primaryCause)
     /\ errorDetails.fallbackAvailable
     /\ errorDetails.fallbackEnabled) =>
        /\ errorDetails.shouldFallback
        /\ fallbackCalls = 1

\* C19: when the primary's request fails for any other reason, the caller gets
\* the primary's error and the fallback is never called for that request.
C19_OtherFailuresPropagate ==
    (PrimaryFailed /\ ~Transient(primaryCause)) =>
        /\ apc = "thrown"
        /\ answer = [kind |-> "error", error |-> primaryError]
        /\ fallbackCalls = 0

\* message contains part as a run of consecutive words
Contains(message, part) ==
    \E k \in 0..(Len(message) - Len(part)) :
        \A j \in 1..Len(part) : message[k + j] = part[j]

\* C20: when the primary fails with a fallback-eligible error and the fallback
\* fails too, the caller gets one error whose message contains the message of
\* the primary's error and the message of the fallback's error.
C20_CombinedErrorNamesBothFailures ==
    (apc = "thrown" /\ fallbackCalls = 1) =>
        /\ answer.kind = "error"
        /\ Contains(answer.error.message, primaryError.message)
        /\ Contains(answer.error.message, fallbackError.message)



(***************************************************************************)
(* AIManager.analyzeContentStream with the streams of the two providers    *)
(* and the sink of processAnalysis.  An event is a call of onChunk,        *)
(* onComplete or onError.                                                  *)
(***************************************************************************)
MaxDeltas == 2

Requests ==
    [prompt : {"p1", "p2"}, content : {"c1"}, history : {<<>>, <<"q1", "a1">>}]
\* what a Gemini stream can fail by: a status that is not ok, a rejected fetch
StreamCauses == {c \in PrimaryCauses : c.kind \in {"http", "network"}}

\* the characters of the answers
Alphabet == {"a", "b"}
\* what analyzeContent of Chrome Nano can return: any text, also the empty one
NanoTexts == UNION {[1..n -> Alphabet] : n \in 0..MaxDeltas}
\* chunk.text of a chunk of generateContentStream, if not empty
Fragments == {<<c>> : c \in Alphabet} \cup {<<"a", "b">>}

ChunkEvent(txt) == [type |-> "chunk", provider |-> <<>>, text |-> txt]
ErrorEvent == [type |-> "error", provider |-> <<>>, text |-> <<>>]
CompleteEvent(name, txt) == [type |-> "complete", provider |-> name, text |-> txt]

\* processAnalysis, onComplete: the provider name of ANALYSIS_STREAM_END
SinkProviderName(initialName) ==
    LET name == NameOf(currentProvider)
    IN  IF Includes(name, "Chrome Built-in AI") /\ Includes(initialName, "Gemini")
        THEN name \o <<" (fallback)">>
        ELSE name

\* the provider whose stream is running
Streaming ==
    IF stream.pc = "primary" THEN currentProvider
    ELSE IF stream.pc = "fallback" THEN fallbackProvider
    ELSE NullHandle

\* the arguments line 342 gives the fallback
FallbackRequestWithoutHistory(request) == [request EXCEPT !.history = <<>>]
FallbackRequest(request) == request

\* the error the inner catch of analyzeWithDirectContentStream hands to onError
GeminiStreamError(raw) ==
    IF raw.hasStatus
    THEN CreateError(<<"GEMINI_STREAM_ERROR_", raw.status>>, <<"SDK", "error", raw.status>>)
    ELSE CreateError(<<"GEMINI_STREAM_ERROR">>, <<"streaming", "failed">>)
\* the error the catch of ChromeNanoProvider.analyzeContentStream hands to onError
NanoStreamError(raw) ==
    IF raw.hasCode THEN CreateError(raw.code, raw.message)
    ELSE CreateError(<<"STREAM_FAILED">>,
                     <<"Chrome", "Nano", "streaming", "failed:">> \o MessageOrUnknown(raw))

\* a provider stream fails with raw: the onError calls its catch blocks make
\* (Gemini has two nested catch blocks, Chrome Nano one) ...
ErrorEventsOf(handle) ==
    IF handle.kind = "gemini" THEN <<ErrorEvent, ErrorEvent>> ELSE <<ErrorEvent>>
\* ... and the value that leaves the provider: raw, or what onError threw
StreamThrows(handle, raw) ==
    IF ~stream.sinkThrows THEN raw
    ELSE IF handle.kind = "gemini" THEN GeminiStreamError(raw)
    ELSE NanoStreamError(raw)

\* lines 324-351: what the manager does when the provider stream of call s
\* failed with raw
FailedStream(s, cause, raw, abortSeen) ==
    LET handle == Streaming
        error == StreamThrows(handle, raw)
        failed == [s EXCEPT !.events = s.events \o ErrorEventsOf(handle),
                            !.abortSeen = abortSeen,
                            !.providerError = error]
    IN  IF s.pc = "primary"
        THEN LET details == [shouldFallback |-> ShouldFallback(error),
                             fallbackAvailable |-> fallbackProvider # NullHandle,
                             fallbackEnabled |-> fallbackToChromeNano]
                 caught == [failed EXCEPT !.details = details,
                                          !.cause = cause,
                                          !.thrown = error,
                                          !.primaryDelivered = s.delivered]
             IN  IF /\ details.shouldFallback
                    /\ details.fallbackAvailable
                    /\ details.fallbackEnabled
                 THEN [caught EXCEPT !.pc = "fallback",
                                     !.delivered = 0,
                                     !.resolved = FALSE,
                                     !.result = <<>>,
                                     !.fullText = <<>>,
                                     !.startAt = Len(failed.events),
                                     !.fallbackCalls = @ + 1,
                                     !.fallbackArgs = FallbackRequest(s.request)]
                 ELSE [caught EXCEPT !.pc = "thrown"]
        ELSE [failed EXCEPT !.pc = "thrown",
                            !.thrown = CreateCombinedError(s.thrown, error)]

\* the provider calls onComplete with the whole text and returns
Completed(s, txt) ==
    [s EXCEPT !.pc = "returned",
              !.completedBy = s.pc,
              !.events = Append(@, CompleteEvent(SinkProviderName(s.initialName), txt))]

\* chrome-nano-provider.ts lines 112-117: the k-th delta of the emulation
NanoDeltaFirst(result, k) == <<result[1]>>
NanoDelta(result, k) == <<result[k]>>

\* chrome-nano-provider.ts lines 115-134, one round of the loop from its onChunk
\* to its next await: the delta; then, after the last delta, the test of the
\* signal and onComplete
NanoEmit(s, k) ==
    LET emitted == [s EXCEPT !.events = Append(@, ChunkEvent(NanoDelta(s.result, k))),
                             !.delivered = k]
    IN  IF k < Len(s.result) THEN emitted
        ELSE IF s.aborted
             THEN FailedStream(emitted, s.cause,
                               NewError("Error", <<"Request", "was", "aborted">>), TRUE)
             ELSE Completed(emitted, s.result)

\* a new AIManager and a sink whose onError rethrows (processAnalysis, line
\* 983) or returns
StreamInit ==
    /\ ParseParked
    /\ PartialParked
    /\ SessionParked
    /\ RebuildParked
    /\ SplitParked
    /\ DispatchParked
    /\ MergeParked
    /\ FileApiParked
    /\ providerVariant = "sdk"
    /\ storedSettings \in SettingsSet
    /\ ManagerConstructed
    /\ \E b \in BOOLEAN : stream = [NoStream EXCEPT !.sinkThrows = b]

\* lines 306-323: analyzeContentStream is called; processAnalysis has read
\* the provider name before (lines 925-927)
StreamCall(request) ==
    /\ isInitialized
    /\ stream.pc = "idle"
    /\ stream' = [stream EXCEPT !.pc = "primary", !.request = request,
                                !.initialName = NameOf(currentProvider)]
    /\ UNCHANGED <<managerVars, nonStreamVars>>

\* Gemini: the stream yields a chunk with text, handed to onChunk
StreamChunk(txt) ==
    /\ stream.pc \in {"primary", "fallback"}
    /\ Streaming.kind = "gemini"
    /\ stream.delivered < MaxDeltas
    /\ stream' = [stream EXCEPT !.events = Append(@, ChunkEvent(txt)),
                                !.fullText = @ \o txt,
                                !.delivered = @ + 1]
    /\ UNCHANGED <<managerVars, nonStreamVars>>

\* Gemini: the stream ends and onComplete gets the accumulated text
StreamComplete ==
    /\ stream.pc \in {"primary", "fallback"}
    /\ Streaming.kind = "gemini"
    /\ stream' = Completed(stream, stream.fullText)
    /\ UNCHANGED <<managerVars, nonStreamVars>>

\* Chrome Nano: analyzeContent returns text; the first delta follows without
\* an await, and onComplete at once if the text is empty
NanoResolves(txt) ==
    /\ stream.pc \in {"primary", "fallback"}
    /\ Streaming.kind = "nano"
    /\ ~stream.resolved
    /\ LET s == [stream EXCEPT !.resolved = TRUE, !.result = txt]
       IN  stream' = IF txt = <<>> THEN Completed(s, txt) ELSE NanoEmit(s, 1)
    /\ UNCHANGED <<managerVars, nonStreamVars>>

\* Chrome Nano: the pause after a delta ends; the signal is tested and the
\* next round follows
NanoTimerFires ==
    /\ stream.pc \in {"primary", "fallback"}
    /\ Streaming.kind = "nano"
    /\ stream.resolved
    /\ stream.delivered < Len(stream.result)
    /\ stream' = IF stream.aborted
                 THEN FailedStream(stream, stream.cause,
                                   NewError("Error", <<"Request", "was", "aborted">>),
                                   TRUE)
                 ELSE NanoEmit(stream, stream.delivered + 1)
    /\ UNCHANGED <<managerVars, nonStreamVars>>

\* the primary's stream fails: generateContentStream or its iterator rejects
\* (Gemini), or the analyzeContent that precedes the deltas does (Chrome Nano)
PrimaryStreamFails(cause) ==
    /\ stream.pc = "primary"
    /\ cause \in (IF currentProvider.kind = "gemini" THEN StreamCauses ELSE NanoCauses)
    /\ currentProvider.kind = "nano" => ~stream.resolved
    /\ stream' = FailedStream(stream, cause,
                              IF currentProvider.kind = "gemini" THEN SdkThrown(cause)
                              ELSE NanoThrows(cause.kind),
                              FALSE)
    /\ UNCHANGED <<managerVars, nonStreamVars>>

\* the fallback's stream fails
FallbackStreamFails(cause) ==
    /\ stream.pc = "fallback"
    /\ ~stream.resolved
    /\ stream' = FailedStream(stream, stream.cause, NanoThrows(cause), FALSE)
    /\ UNCHANGED <<managerVars, nonStreamVars>>

\* the caller aborts the signal of options
StreamAbort ==
    /\ stream.pc \in {"primary", "fallback"}
    /\ ~stream.aborted
    /\ stream' = [stream EXCEPT !.aborted = TRUE, !.abortAt = Len(stream.events)]
    /\ UNCHANGED <<managerVars, nonStreamVars>>

\* Chrome Nano: the prompt of analyzeContent rejects with an AbortError,
\* which analyzeContent rethrows as it is
NanoSeesAbort ==
    /\ stream.pc \in {"primary", "fallback"}
    /\ Streaming.kind = "nano"
    /\ stream.aborted
    /\ ~stream.resolved
    /\ stream' = FailedStream(stream, stream.cause,
                              NewError("AbortError", <<"The", "operation", "was", "aborted">>),
                              TRUE)
    /\ UNCHANGED <<managerVars, nonStreamVars>>

StreamNext ==
    \/ \E c, f, q, l \in BOOLEAN : Initialize(c, f, q, l)
    \/ \E request \in Requests : StreamCall(request)
    \/ \E txt \in Fragments : StreamChunk(txt)
    \/ StreamComplete
    \/ \E txt \in NanoTexts : NanoResolves(txt)
    \/ NanoTimerFires
    \/ \E cause \in StreamCauses \cup NanoCauses : PrimaryStreamFails(cause)
    \/ \E cause \in FallbackCauses : FallbackStreamFails(cause)
    \/ StreamAbort
    \/ NanoSeesAbort

StreamSpec == StreamInit /\ [][StreamNext]_vars


(***************************************************************************)
(* GeminiProvider.analyzeWithFileAPI and analyzeWithFileAPIStream: upload, *)
(* waitForFileActive, generation, delete.  Time is counted in ticks of     *)
(* 1000 ms, the pause between two polls.                                   *)
(***************************************************************************)
\* maxWaitTime of waitForFileActive (30000 ms) in ticks, scaled down
MaxWaitTicks == 3
\* the longest a files.get takes to settle, in ticks
MaxGetLatency == 2

FileModes == {"single", "stream"}
FileStates == {"ACTIVE", "PROCESSING", "FAILED"}
FileRequests == [prompt : {"p1", "p2"}, content : {"big1", "big2"}]
\* how generateContent can end for analyzeWithFileAPI, and generateContentStream
\* for analyzeWithFileAPIStream
GenerationOutcomes(mode) ==
    IF mode = "single" THEN {"text", "maxTokens", "badFinish", "empty", "rejected"}
    ELSE {"text", "rejected"}

\* waitForFileActive, line 318
IsActiveOrProcessing(state) == state # "FAILED"
IsActive(state) == state = "ACTIVE"
\* the loop condition of line 314
LoopContinues(elapsed) == elapsed < MaxWaitTicks
\* the test of the catch, line 333: Date.now() - startTime > maxWaitTime - 1000
NearTimeout(elapsed) == elapsed > MaxWaitTicks - 1

\* the code of the error a path out of the try block throws; "" for a
\* rejected SDK call, whose error has a status and no code
ThrownCode(exit) ==
    CASE exit \in {"missingName", "missingUri"} -> "FILE_UPLOAD_ERROR"
      [] exit = "timeout" -> "FILE_WAIT_TIMEOUT"
      [] exit = "maxTokens" -> "TOKEN_LIMIT_EXCEEDED"
      [] exit = "badFinish" -> "GENERATION_FAILED"
      [] exit = "empty" -> "EMPTY_RESPONSE"
      [] OTHER -> ""
\* the catch of analyzeContent, lines 96-116: createError objects carry no
\* userMessage, so every error is wrapped again
OuterCatchCode(code) ==
    IF code = "" THEN "GEMINI_SDK_ERROR_status" ELSE "GEMINI_UNKNOWN_ERROR"
\* the test of lines 80-85
RetriesInlineNever(code) == FALSE
RetriesInline(code) == code = "TOKEN_LIMIT_EXCEEDED"
\* the arguments of line 86
InlineRequest(request) == request

\* the upload path has ended with f.exit: what the caller of it does.  Only
\* analyzeContent retries; analyzeContentStream rethrows what it caught.
UploadPathEnded(f) ==
    IF f.exit = "text" THEN [f EXCEPT !.pc = "returned", !.result = "file"]
    ELSE IF f.mode = "stream" THEN [f EXCEPT !.pc = "thrown", !.code = ThrownCode(f.exit)]
    ELSE IF RetriesInline(ThrownCode(f.exit))
         THEN [f EXCEPT !.pc = "inline", !.inlineCalls = @ + 1,
                        !.inlineArgs = InlineRequest(f.request)]
         ELSE [f EXCEPT !.pc = "thrown", !.code = OuterCatchCode(ThrownCode(f.exit))]

\* the try block is left with exit: the finally block issues the delete if
\* the upload returned a name, otherwise the call ends at once
FinallyOnSuccessOnly(f, exit) ==
    IF f.hasName /\ exit = "text"
    THEN [f EXCEPT !.pc = "deleting", !.exit = exit, !.deletes = @ + 1]
    ELSE UploadPathEnded([f EXCEPT !.exit = exit])
Finally(f, exit) ==
    IF f.hasName
    THEN [f EXCEPT !.pc = "deleting", !.exit = exit, !.deletes = @ + 1]
    ELSE UploadPathEnded([f EXCEPT !.exit = exit])

\* the head of the loop of waitForFileActive: another files.get, or the
\* FILE_WAIT_TIMEOUT after the loop
LoopHead(f) ==
    IF LoopContinues(f.elapsed)
    THEN [f EXCEPT !.pc = "getting", !.polls = @ + 1, !.pollAt = f.elapsed]
    ELSE Finally([f EXCEPT !.waitCode = "FILE_WAIT_TIMEOUT"], "timeout")

FileApiInit ==
    /\ ParseParked
    /\ PartialParked
    /\ SessionParked
    /\ RebuildParked
    /\ SplitParked
    /\ DispatchParked
    /\ MergeParked
    /\ ManagerParked
    /\ StreamParked
    /\ fileApi = NoFileApi

\* the call (content above 100 KB): files.upload is issued
AnalyzeWithFileAPI(mode, request) ==
    /\ fileApi.pc = "idle"
    /\ fileApi' = [fileApi EXCEPT !.pc = "uploading", !.mode = mode,
                                  !.request = request]
    /\ UNCHANGED nonFileApiVars

\* files.upload resolves with a file object that may lack name or uri
UploadResolves(hasName, hasUri) ==
    /\ fileApi.pc = "uploading"
    /\ LET f == [fileApi EXCEPT !.uploaded = TRUE, !.hasName = hasName,
                                !.hasUri = hasUri]
       IN  fileApi' = IF ~hasName THEN Finally(f, "missingName") ELSE LoopHead(f)
    /\ UNCHANGED nonFileApiVars

\* files.upload rejects: nothing was stored
UploadRejects ==
    /\ fileApi.pc = "uploading"
    /\ fileApi' = UploadPathEnded([fileApi EXCEPT !.exit = "uploadFailed"])
    /\ UNCHANGED nonFileApiVars

\* what the catch of the loop does with a rejected files.get or a FAILED file
PollFailed(f) ==
    IF NearTimeout(f.elapsed)
    THEN Finally([f EXCEPT !.waitCode = "FILE_WAIT_TIMEOUT"], "timeout")
    ELSE [f EXCEPT !.pc = "sleeping"]

\* files.get resolves after latency ticks
GetResolves(state, latency) ==
    /\ fileApi.pc = "getting"
    /\ LET f == [fileApi EXCEPT !.elapsed = @ + latency]
       IN  fileApi' =
             IF IsActive(state)
             THEN LET g == [f EXCEPT !.sawActive = (state = "ACTIVE")]
                  IN  IF ~g.hasUri THEN Finally(g, "missingUri")
                      ELSE [g EXCEPT !.pc = "generating", !.generated = TRUE]
             ELSE IF state = "FAILED" THEN PollFailed([f EXCEPT !.sawFailed = TRUE])
             ELSE [f EXCEPT !.pc = "sleeping"]
    /\ UNCHANGED nonFileApiVars

\* files.get rejects after latency ticks
GetRejects(latency) ==
    /\ fileApi.pc = "getting"
    /\ fileApi' = PollFailed([fileApi EXCEPT !.elapsed = @ + latency])
    /\ UNCHANGED nonFileApiVars

\* the pause of 1000 ms ends
SleepEnds ==
    /\ fileApi.pc = "sleeping"
    /\ fileApi' = LoopHead([fileApi EXCEPT !.elapsed = @ + 1])
    /\ UNCHANGED nonFileApiVars

\* the generation ends: with text, or by one of the errors of lines 268-299,
\* or the request or the stream rejects
GenerationSettles(outcome) ==
    /\ fileApi.pc = "generating"
    /\ outcome \in GenerationOutcomes(fileApi.mode)
    /\ fileApi' = Finally(fileApi, outcome)
    /\ UNCHANGED nonFileApiVars

\* files.delete settles; its failure is ignored
DeleteSettles ==
    /\ fileApi.pc = "deleting"
    /\ fileApi' = UploadPathEnded(fileApi)
    /\ UNCHANGED nonFileApiVars

\* generateContent of analyzeWithDirectContent settles
InlineSettles(outcome) ==
    /\ fileApi.pc = "inline"
    /\ fileApi' =
          IF outcome = "text"
          THEN [fileApi EXCEPT !.pc = "returned", !.result = "inline"]
          ELSE [fileApi EXCEPT !.pc = "thrown",
                               !.code = OuterCatchCode(IF outcome = "empty"
                                                       THEN "EMPTY_RESPONSE" ELSE "")]
    /\ UNCHANGED nonFileApiVars

\* the provider is used for the next large content
NextFileCall ==
    /\ fileApi.pc \in {"returned", "thrown"}
    /\ fileApi' = NoFileApi
    /\ UNCHANGED nonFileApiVars

GetSettles ==
    \E latency \in 0..MaxGetLatency :
        \/ \E state \in FileStates : GetResolves(state, latency)
        \/ GetRejects(latency)

FileApiNext ==
    \/ \E mode \in FileModes, request \in FileRequests : AnalyzeWithFileAPI(mode, request)
    \/ \E hasName, hasUri \in BOOLEAN : UploadResolves(hasName, hasUri)
    \/ UploadRejects
    \/ GetSettles
    \/ SleepEnds
    \/ \E outcome \in GenerationOutcomes("single") : GenerationSettles(outcome)
    \/ DeleteSettles
    \/ \E outcome \in {"text", "empty", "rejected"} : InlineSettles(outcome)
    \/ NextFileCall

FileApiSpec == FileApiInit /\ [][FileApiNext]_vars

\* every awaited files.get settles and every timer fires
FileApiFairSpec ==
    /\ FileApiInit
    /\ [][FileApiNext]_vars
    /\ WF_vars(GetSettles)
    /\ WF_vars(SleepEnds)

(***************************************************************************)
(* Claims about AIManager.createProvider and reconfiguration.              *)
(***************************************************************************)
\* the request at hand began after the last run of createProvider
StartedAfterBuild == apc # "idle" /\ used.called \in lastBuild.fresh

\* C25: when a run of createProvider wants a fallback and the fallback's
\* initialize fails, the fallback slot is empty, no request begun afterwards
\* calls a fallback, and, the primary's initialize succeeding, the run
\* completes with the new Gemini object as primary (initialize() sets
\* isInitialized).
C25_FailedFallbackIsDropped ==
    (lastBuild.ran /\ lastBuild.wantsFallback /\ ~lastBuild.fallbackInitOk) =>
        /\ fallbackProvider = NullHandle
        /\ StartedAfterBuild => fallbackCalls = 0
        /\ lastBuild.primaryInitOk =>
              /\ ~lastBuild.threw
              /\ currentProvider.kind = "gemini"
              /\ currentProvider \in lastBuild.fresh
              /\ currentProvider \notin destroyed
              /\ lastBuild.byInitialize => isInitialized
C25_Witness ==
    /\ lastBuild.byInitialize
    /\ lastBuild.wantsFallback
    /\ ~lastBuild.fallbackInitOk
    /\ lastBuild.primaryInitOk
    /\ StartedAfterBuild
    /\ apc = "thrown"
    /\ errorDetails.shouldFallback
    /\ errorDetails.fallbackEnabled

\* C26: when initialize() finds that the primary cannot be constructed or
\* initialized: an initialized fallback, if there is one, becomes the primary
\* and the fallback slot is emptied; otherwise a new Chrome Nano object is
\* constructed and initialized as primary; and initialize() fails only if the
\* initialize of that last object fails.
C26_PrimaryFailureFallsBackAtInit ==
    (lastBuild.ran /\ lastBuild.byInitialize) =>
        /\ ~lastBuild.primaryInitOk =>
              IF lastBuild.fallbackAtFailure # NullHandle
              THEN /\ currentProvider = lastBuild.fallbackAtFailure
                   /\ currentProvider \in lastBuild.fresh
                   /\ currentProvider \notin destroyed
                   /\ fallbackProvider = NullHandle
                   /\ ~lastBuild.threw
              ELSE /\ currentProvider.kind = "nano"
                   /\ currentProvider \in lastBuild.fresh
                   /\ currentProvider \notin destroyed
        /\ (lastBuild.constructFailed /\ lastBuild.primaryInitOk) =>
              /\ currentProvider.kind = "nano"
              /\ currentProvider \in lastBuild.fresh
        /\ isInitialized = ~lastBuild.threw
        /\ lastBuild.threw =>
              (~lastBuild.primaryInitOk /\ lastBuild.fallbackAtFailure = NullHandle)

\* C27: after a settings change was processed (all initializations
\* succeeding), every handle held before it is destroyed and in neither slot;
\* the primary slot holds a newly built handle; the fallback slot holds a newly
\* built handle if the new settings want a fallback and is empty otherwise.
C27_ReconfigurationRebuildsBothSlots ==
    (/\ lastBuild.ran
     /\ ~lastBuild.byInitialize
     /\ lastBuild.primaryInitOk
     /\ lastBuild.wantsFallback => lastBuild.fallbackInitOk) =>
        /\ lastBuild.before \subseteq destroyed
        /\ currentProvider \notin lastBuild.before
        /\ fallbackProvider \notin lastBuild.before
        /\ currentProvider \in lastBuild.fresh
        /\ IF lastBuild.wantsFallback
           THEN fallbackProvider \in lastBuild.fresh
           ELSE fallbackProvider = NullHandle

\* C28: a request keeps to the handles that were current when it began, also
\* when createProvider runs while it is in flight: the name it reports is the
\* name of the provider it called, or of the fallback that was in the slot at
\* its start, and the fallback it calls is that same fallback.
C28_RequestKeepsItsHandles ==
    /\ (apc = "returned" /\ answer.from = "primary") =>
          /\ used.reported = used.called
          /\ answer.provider = NameOf(used.called)
    /\ fallbackCalls = 1 => used.fallbackCalled = used.fallbackAtStart
    /\ (apc = "returned" /\ answer.from = "fallback") =>
          used.reported = used.fallbackAtStart

(***************************************************************************)
(* Claims about streaming                                                  *)
(***************************************************************************)
Terminal(e) == e.type \in {"complete", "error"}
StreamEnded == stream.pc \in {"returned", "thrown"}
PrimaryStreamFailed == stream.pc \in {"fallback", "returned", "thrown"} /\ stream.cause # NoCause

\* C21: the sink gets deltas, then exactly one terminal event (complete or
\* error), and nothing after it: no event follows a terminal event, and a call
\* that has ended has delivered one.
C21_OneTerminalEventLast ==
    /\ \A k \in 1..Len(stream.events) :
          Terminal(stream.events[k]) => k = Len(stream.events)
    /\ StreamEnded =>
          /\ Len(stream.events) > 0
          /\ Terminal(stream.events[Len(stream.events)])

\* C22: when the primary's stream fails with an error that shouldFallback
\* accepts, and a fallback exists and fail-over is enabled, the fallback's
\* stream is called once, with the prompt, the content and the history of the
\* request.
C22_FallbackGetsTheWholeRequest ==
    (/\ PrimaryStreamFailed
     /\ stream.details.shouldFallback
     /\ stream.details.fallbackAvailable
     /\ stream.details.fallbackEnabled) =>
        /\ stream.fallbackCalls = 1
        /\ stream.fallbackArgs = stream.request
C22_Witness ==
    /\ PrimaryStreamFailed
    /\ stream.details.shouldFallback
    /\ stream.pc = "returned"
    /\ stream.completedBy = "fallback"
    /\ stream.fallbackArgs.history # <<>>
    /\ stream.fallbackArgs.prompt = "p2"

\* C23: the provider named on the complete event is the provider whose stream
\* completed, marked "(fallback)" exactly when that was the fallback.
C23_CompleteEventNamesTheProvider ==
    stream.pc = "returned" =>
        LET e == stream.events[Len(stream.events)]
        IN  IF stream.completedBy = "fallback"
            THEN e.provider = NameOf(fallbackProvider) \o <<" (fallback)">>
            ELSE e.provider = NameOf(currentProvider)

\* C24: once a provider has seen the cancellation, the sink gets no error
\* event and no further delta, and the call does not fail.
C24_CancellationIsNotAnError ==
    stream.abortSeen =>
        /\ \A k \in (stream.abortAt + 1)..Len(stream.events) :
              stream.events[k].type = "complete"
        /\ stream.pc # "thrown"

(***************************************************************************)
(* Claims about the File API path                                          *)
(***************************************************************************)
FileCallEnded == fileApi.pc \in {"returned", "thrown"}
Polling == fileApi.pc \in {"getting", "sleeping"}

C30_Safe ==
    /\ fileApi.generated => fileApi.sawActive
    /\ fileApi.pc = "getting" => fileApi.pollAt < MaxWaitTicks
    /\ fileApi.elapsed <= MaxWaitTicks + MaxGetLatency
    /\ (fileApi.uploaded /\ fileApi.hasName /\ ~Polling) =>
          (fileApi.sawActive \/ fileApi.exit = "timeout")
C39_OnlyEqualTriplesAreDropped ==
    mpc = "done" =>
        /\ TripleSet(mergeOutput) = TripleSet(MergeFlat)
        /\ Len(mergeOutput) = Cardinality(TripleSet(MergeFlat))

\* C40: once a files.get has reported the file FAILED, polling has stopped
\* and waitForFileActive has failed with FILE_PROCESSING_FAILED.
C40_FailedFileStopsPolling ==
    fileApi.sawFailed =>
        /\ ~Polling
        /\ fileApi.waitCode = "FILE_PROCESSING_FAILED"

TokenLimitHit == fileApi.mode = "single" /\ fileApi.exit = "maxTokens"
\* C31: when analyzeWithFileAPI has failed with TOKEN_LIMIT_EXCEEDED,
\* analyzeContent has called analyzeWithDirectContent once, with the prompt
\* and content of the request; its text is what analyzeContent returns, and
\* analyzeContent never fails with TOKEN_LIMIT_EXCEEDED.
C31_TokenLimitRetriesInline ==
    (TokenLimitHit /\ fileApi.pc # "deleting") =>
        /\ fileApi.inlineCalls = 1
        /\ fileApi.inlineArgs = fileApi.request
        /\ fileApi.pc \in {"inline", "returned", "thrown"}
        /\ fileApi.pc = "returned" => fileApi.result = "inline"
        /\ fileApi.pc = "thrown" => fileApi.code # "TOKEN_LIMIT_EXCEEDED"
C31_Witness ==
    /\ TokenLimitHit
    /\ fileApi.pc = "returned"
    /\ fileApi.result = "inline"
    /\ fileApi.request = [prompt |-> "p2", content |-> "big2"]

\* C32: whatever a provider's analyzeContentStream rejects with, as the
\* manager catches it, is an object with a code.
C32_ProviderFailuresCarryACode ==
    stream.providerError # NoError => stream.providerError.hasCode

\* the events of the provider stream that ran last
ProviderEvents == SubSeq(stream.events, stream.startAt + 1, Len(stream.events))
RECURSIVE ConcatDeltas(_)
ConcatDeltas(evs) ==
    IF evs = <<>> THEN <<>> ELSE Head(evs).text \o ConcatDeltas(Tail(evs))
CompletedByHandle ==
    IF stream.completedBy = "primary" THEN currentProvider ELSE fallbackProvider

\* C33: a provider stream that completed has delivered deltas and then one
\* complete event, the deltas in order making up the text of the complete
\* event; for Chrome Nano, which has no streaming backend, that text is the
\* result of analyzeContent and every delta is one character of it.
C33_EmulatedStreamKeepsTheContract ==
    stream.pc = "returned" =>
        LET evs == ProviderEvents
            n == Len(evs)
        IN  /\ n >= 1
            /\ evs[n].type = "complete"
            /\ \A k \in 1..(n - 1) : evs[k].type = "chunk"
            /\ ConcatDeltas(SubSeq(evs, 1, n - 1)) = evs[n].text
            /\ CompletedByHandle.kind = "nano" =>
                  /\ evs[n].text = stream.result
                  /\ \A k \in 1..(n - 1) : Len(evs[k].text) = 1
C33_Witness ==
    /\ stream.pc = "returned"
    /\ CompletedByHandle.kind = "nano"
    /\ stream.result = <<"a", "b">>
    /\ Len(ProviderEvents) = 3

(***************************************************************************)
(* Claims about parseAnalysisResult (ParseSpec)                            *)
(***************************************************************************)
WellFormed(response) ==
    /\ response.kind = "json"
    /\ response.top = "object"
    /\ response.hasErrors
    /\ response.isArray
    /\ \A k \in 1..Len(response.errors) : ~IsNull(response.errors[k])
Found(response) == {response.matches[k] : k \in 1..Len(response.matches)}

\* C36: for an answer that is not an object with an array of error objects,
\* the parser raises nothing and the attempt returns a ChunkResult of the
\* chunk; its records are those the pattern search found in the answer, none
\* if it found nothing.
C36_MalformedAnswerIsNotFatal ==
    (parse.pc # "init" /\ ~WellFormed(parse.response)) =>
        /\ ~parse.raised
        /\ parse.pc = "returned"
        /\ parse.result.chunkId = ParseChunk.id
        /\ \A k \in 1..Len(parse.result.errors) :
              /\ parse.result.errors[k].explanation = "auto-detected"
              /\ parse.result.errors[k].original \in Found(parse.response)
        /\ Len(parse.result.errors) <= Len(parse.response.matches)
C36_Witness ==
    /\ parse.pc = "returned"
    /\ parse.response.kind = "json"
    /\ parse.response.isArray
    /\ ~WellFormed(parse.response)
    /\ Len(parse.result.errors) = 1

\* C37: with several callers on one new AISessionManager, at most one session
\* is created; an initialize() that returned without error returned when the
\* session existed; and no caller failed with SESSION_FAILED while another
\* caller's initialize() was still running.
C37_ConcurrentInitializeIsSafe ==
    /\ session.created <= 1
    /\ \A c \in DOMAIN session.callers :
          LET caller == session.callers[c]
          IN  /\ (caller.op = "initialize" /\ caller.pc = "returned") =>
                    caller.sessionAtReturn
              /\ (caller.pc = "thrown" /\ caller.code = "SESSION_FAILED") =>
                    ~caller.initializingAtEnd

(***************************************************************************)
(* Claims about analyzeTextStreaming (PartialSpec)                         *)
(***************************************************************************)
\* braces and brackets are balanced: never more closed than opened, and all
\* closed at the end
RECURSIVE Depth(_, _)
Depth(t, open) ==
    IF t = <<>> THEN 0
    ELSE LET last == t[Len(t)]
             before == Depth(SubSeq(t, 1, Len(t) - 1), open)
         IN  IF last = open THEN before + 1
             ELSE IF (open = "{" /\ last = "}") \/ (open = "[" /\ last = "]")
                  THEN before - 1
                  ELSE before
Balanced(t) ==
    /\ \A n \in 0..Len(t) : Depth(SubSeq(t, 1, n), "{") >= 0 /\ Depth(SubSeq(t, 1, n), "[") >= 0
    /\ Depth(t, "{") = 0
    /\ Depth(t, "[") = 0
YieldedComplete == {k \in 1..Len(partial.yielded) : partial.yielded[k].isComplete}

RECURSIVE TextUpTo(_)
\* the text accumulated when the k-th item was yielded
TextUpTo(k) == IF k = 0 THEN <<>> ELSE TextUpTo(k - 1) \o partial.yielded[k].chunk
\* C35: an item carries records only if the text accumulated by then holds a
\* complete record object, and once the text of a stream not yet complete
\* holds one, an item carrying that record has been yielded.
C35_PartialRecordsFollowTheBuffer ==
    /\ \A k \in 1..Len(partial.yielded) :
          partial.yielded[k].partialErrors # <<>> => TextIncludes(TextUpTo(k), "RECORD")
    /\ (partial.pc = "streaming" /\ TextIncludes(partial.previousText, "RECORD")) =>
          \E k \in 1..Len(partial.yielded) :
              TextIncludes(partial.yielded[k].partialErrors, "RECORD")

(***************************************************************************)
(* Claims about concurrent rebuilds (RebuildSpec)                          *)
(***************************************************************************)
AllRunsFinished ==
    /\ rebuild.runs # <<>>
    /\ \A k \in 1..Len(rebuild.runs) : rebuild.runs[k].pc \in {"returned", "thrown"}
\* C38: when every call of initialize() and every rebuild after a settings
\* change has finished, each provider object ever constructed is the
\* primary, the fallback, or destroyed and without a live session.
C38_RebuildsLeaveNoStrayProvider ==
    AllRunsFinished =>
        \A h \in 1..Len(rebuild.kinds) :
            \/ h = rebuild.currentProvider
            \/ h = rebuild.fallbackProvider
            \/ h \in rebuild.destroyed /\ h \notin rebuild.live
====
